---- MODULE Spec2Model ----
(***************************************************************************)
(* Resilient request layer of connecto-expo: the TokenManager (credential  *)
(* store with single-flight renewal), the ky api client with its           *)
(* beforeRequest/beforeRetry hooks, the apiUtils wrappers with the          *)
(* ErrorHandler, and the RequestDeduplicator.                               *)
(*                                                                         *)
(* Time is counted in minutes in the credential model (the source counts   *)
(* milliseconds: 55 * 60 * 1000 and 5 * 60 * 1000) and in seconds in the   *)
(* deduplicator model (30000 ms and 60000 ms).                             *)
(*                                                                         *)
(* Scheduling: JavaScript runs one task at a time.  A step of the model is *)
(* the code that runs between two suspension points (a network call, a     *)
(* timer).  When a renewal promise settles, the continuations that await   *)
(* it are microtasks: they all run before any further network response,    *)
(* timer or user event is delivered (MicrotasksPending).                   *)
(***************************************************************************)
EXTENDS Integers, Sequences, FiniteSets, TLC

\* ------------------------------------------------------------------ bounds
NProcs == 2
MaxTok == 2
MaxNow == 52
NKeys == 2
NUrls == 1
MaxOps == 3
NCallers == 2
MaxClock == 60000
MaxRetries == 2
MaxFailures == 3
MinStatus == 100
MaxStatus == 600
MaxStoreNow == 60
StoreStep == 5
MaxTokenLen == 2
MaxCalls == 3
SearchStep == 100
MaxSearchTime == 800
ThrottleLimit == 1000
ThrottleStep == 500
MaxThrottleTime == 4000
MaxThrottleCalls == 4
NEntities == 3
MaxRelations == 2

\* ------------------------------------------------- program constants
NoToken == 0
TokenLifetime == 55
ExpiryWindow == 5
RetryLimit == 2
PENDING_TIMEOUT == 30000
CLEANUP_INTERVAL == 60000
SearchDelay == 300
UNAUTHORIZED == 401
FORBIDDEN == 403
NOT_FOUND == 404
CONFLICT == 409
UNPROCESSABLE_ENTITY == 422
INTERNAL_SERVER_ERROR == 500
OK == 200
TOO_MANY_REQUESTS == 429
NOT_IMPLEMENTED == 501

RetryStatusCodes == {401, 408, 413, 429, 500, 502, 503, 504}

Procs == 1..NProcs
Tokens == 1..MaxTok
Tickets == 1..NProcs
TickSizes == {52}
\* The body of a request without data, and the key of no request.
NoData == ""
NoKey == <<"", 0, "">>

\* createRequestKey(url, method, data): `${method}:${url}:${dataHash}`, where
\* dataHash is JSON.stringify(data), or "" when data is falsy.
\* A payload is written as its JSON text; these are the falsy ones: no
\* payload (undefined), null, 0, false and the empty string.
FalsyPayloads == {NoData, "null", "0", "false", "\"\""}

\* JSON.stringify(data), for a payload written as its JSON text
JSON_stringify(data) == data

createRequestKey(url, method, data) ==
  <<method, url, IF data \notin FalsyPayloads THEN JSON_stringify(data) ELSE "">>

Keys == {createRequestKey(url, "GET", NoData) : url \in 1..NKeys}
OpIds == 1..MaxOps
Callers == 1..NCallers
ClockSteps == {15000}
InitExpiries == {3, TokenLifetime}

VARIABLES
  tm,        \* TokenManager fields: accessToken, refreshToken, isRefreshing, refreshPromise
  storage,   \* localStorage/sessionStorage items: accessToken, refreshToken, tokenExpiry
  auth,      \* useAuthStore state: isAuthenticated
  tickets,   \* the performTokenRefresh promises whose network call is in flight
  procs,     \* the pending callers: apiUtils requests and direct refreshAccessToken calls
  now,       \* Date.now(), in minutes
  pendingRequests,  \* the Map of in-flight requests: entries [key, op, timestamp]
  ops,       \* the operations started by requestFn: their state and abort signal
  callers,   \* the callers of RequestDeduplicator.deduplicate and what they await
  clock,     \* Date.now() of the deduplicator, in milliseconds
  lastSweep, \* the clock at the last run of the setInterval callback
  rr,        \* a call of retryableRequest: its options, loop counter and result
  cancelled, \* the last call of cancelRequest: its key and the value it returned
  hx,        \* a failure given to ErrorClassifier.classify or to handleApiError, and what came of it
  sc,        \* the last two calls of the TokenManager's public methods, and what the last returned
  ps,        \* a TokenManager with string tokens across a restart: its mode, fields and stored items
  kx,        \* two apiUtils calls and the deduplication keys computed for them
  db,        \* debounceTimers, the calls of debounced functions, and the search controller
  th,        \* throttleState of one key, its trailing timers, and the executions of fn
  cs         \* a cascade invalidation: entityRelations, visited, the recursion, the invalidations done

authVars == <<tm, storage, auth, tickets, procs, now>>
utilVars == <<ps, kx, db, th, cs>>
dedupVars ==
  <<pendingRequests, ops, callers, clock, lastSweep, rr, cancelled, hx, sc,
    utilVars>>
vars == <<authVars, dedupVars>>
\* What the helpers beside the api client and the deduplicator leave alone.
coreVars ==
  <<authVars, pendingRequests, ops, callers, clock, lastSweep, rr, cancelled,
    hx, sc>>

\* An absent string (null) is the empty sequence of characters.
NoText == <<>>

\* A TokenManager holding nothing, not yet told which mode it runs in.
NoPersist ==
  [pc |-> "idle", encryptTokens |-> FALSE,
   accessToken |-> NoText, refreshToken |-> NoText,
   items |-> [accessToken |-> NoText, refreshToken |-> NoText],
   a |-> NoText, r |-> NoText, gotAccess |-> NoText, gotRefresh |-> NoText]

\* No call: a request that is none of those apiUtils can make.
NoRequest ==
  [method |-> "", url |-> 0, data |-> NoData, searchParams |-> "", key |-> NoKey]

\* No key has been computed.
NoKeys ==
  [pc |-> "idle", first |-> NoRequest, second |-> NoRequest,
   firstKey |-> NoKey, secondKey |-> NoKey]

\* The calls of debounced functions, numbered in the order they are made.
CallIds == 1..MaxCalls
NoController == 0

\* A call that has not been made.
UnusedCall ==
  [st |-> "unused", key |-> "", query |-> "", at |-> 0, due |-> 0,
   timer |-> "none", aborted |-> FALSE, invoked |-> FALSE]

\* debounceTimers = new Map(); no debounced function has been called.
NoDebounce ==
  [time |-> 0, calls |-> [n \in CallIds |-> UnusedCall], timers |-> {},
   currentController |-> NoController]

\* throttleState = new Map(): no throttled function has been called. Date.now()
\* is far from 0, the lastExecuted of a key without state.
NoThrottle ==
  [time |-> ThrottleLimit, state |-> {}, timers |-> {}, starts |-> <<>>,
   nCalls |-> 0, last |-> [branch |-> "none", scheduled |-> FALSE]]

Entities == 1..NEntities
NoEntity == 0

\* No cascade invalidation has been asked for.
NoCascade ==
  [pc |-> "idle", registered |-> {}, relations |-> [e \in Entities |-> <<>>],
   start |-> NoEntity, visited |-> {}, count |-> [e \in Entities |-> 0],
   call |-> NoEntity, stack |-> <<>>]

\* The helpers of the request module have not been used.
InitUtil ==
  /\ cs = NoCascade
  /\ th = NoThrottle
  /\ ps = NoPersist
  /\ kx = NoKeys
  /\ db = NoDebounce

\* An absent storage item is <<>>, a present one <<value>>.
Absent == <<>>
Item(v) == <<v>>

\* --------------------------------------------------------- TokenManager
\* A context c is the state an operation reads and writes while it runs:
\* c.tm, c.storage, c.auth, c.tickets, c.now and c.me, the record of the
\* caller on whose behalf the code runs (c.busy: the promises other callers
\* still await).

\* c.storage.fails: the storage primitive is unusable (window is undefined,
\* or every access of the Storage object throws).

\* setSecureItem: storage.setItem(key, value); a failure is logged and dropped
setSecureItem(c, key, value) ==
  [c EXCEPT !.storage = IF @.fails THEN @ ELSE [@ EXCEPT ![key] = Item(value)]]

\* getSecureItem: the stored item, or null (Absent) when nothing is stored or
\* the read fails
getSecureItem(c, key) == IF c.storage.fails THEN Absent ELSE c.storage[key]

\* removeSecureItem: storage.removeItem(key); a failure is logged and dropped
removeSecureItem(c, key) ==
  [c EXCEPT !.storage = IF @.fails THEN @ ELSE [@ EXCEPT ![key] = Absent]]

\* The token a storage item holds, null (NoToken) when absent.
ItemToken(item) == IF item = Absent THEN NoToken ELSE item[1]

\* Mutant of setTokens: the expiry is not recorded.
setTokens_noExpiry(c, accessToken, refreshToken) ==
  LET c1 == [c EXCEPT !.tm.accessToken = accessToken,
                      !.tm.refreshToken =
                          IF refreshToken # NoToken THEN refreshToken ELSE @]
      c2 == setSecureItem(c1, "accessToken", accessToken)
  IN  IF refreshToken # NoToken
        THEN setSecureItem(c2, "refreshToken", refreshToken)
        ELSE c2

\* setTokens(accessToken, refreshToken?): refreshToken = NoToken is "not supplied"
setTokens(c, accessToken, refreshToken) ==
  LET c1 == [c EXCEPT !.tm.accessToken = accessToken,
                      !.tm.refreshToken =
                          IF refreshToken # NoToken THEN refreshToken ELSE @]
      c2 == setSecureItem(c1, "accessToken", accessToken)
      c3 == IF refreshToken # NoToken
              THEN setSecureItem(c2, "refreshToken", refreshToken)
              ELSE c2
      expiryTime == c.now + TokenLifetime
  IN  setSecureItem(c3, "tokenExpiry", expiryTime)

\* getAccessToken(): the value returned
getAccessToken(c) ==
  IF c.tm.accessToken # NoToken
    THEN c.tm.accessToken
    ELSE ItemToken(getSecureItem(c, "accessToken"))

\* getAccessToken(): the state it leaves (both fields restored from storage)
getAccessTokenLoad(c) ==
  IF c.tm.accessToken # NoToken
    THEN c
    ELSE [c EXCEPT !.tm.accessToken = ItemToken(getSecureItem(c, "accessToken")),
                   !.tm.refreshToken = ItemToken(getSecureItem(c, "refreshToken"))]

\* getRefreshToken(): the value returned
getRefreshToken(c) ==
  IF c.tm.refreshToken # NoToken
    THEN c.tm.refreshToken
    ELSE ItemToken(getSecureItem(c, "refreshToken"))

\* getRefreshToken(): the state it leaves
getRefreshTokenLoad(c) ==
  IF c.tm.refreshToken # NoToken
    THEN c
    ELSE [c EXCEPT !.tm.refreshToken = ItemToken(getSecureItem(c, "refreshToken"))]

\* Mutant of clearTokens: the stored expiry is left behind.
clearTokens_keepsExpiry(c) ==
  LET c1 == [c EXCEPT !.tm.accessToken = NoToken, !.tm.refreshToken = NoToken]
  IN  removeSecureItem(removeSecureItem(c1, "accessToken"), "refreshToken")

\* clearTokens()
clearTokens(c) ==
  LET c1 == [c EXCEPT !.tm.accessToken = NoToken, !.tm.refreshToken = NoToken]
  IN  removeSecureItem(
        removeSecureItem(removeSecureItem(c1, "accessToken"), "refreshToken"),
        "tokenExpiry")

\* Mutant of isTokenExpired: the token is still good at its expiry time.
isTokenExpired_strict(c) ==
  LET expiryTime == getSecureItem(c, "tokenExpiry")
  IN  IF expiryTime = Absent THEN TRUE ELSE c.now > expiryTime[1]

\* isTokenExpired()
isTokenExpired(c) ==
  LET expiryTime == getSecureItem(c, "tokenExpiry")
  IN  IF expiryTime = Absent THEN TRUE ELSE c.now >= expiryTime[1]

\* Mutant of isTokenExpiringSoon: the five-minute window is left out.
isTokenExpiringSoon_noWindow(c) ==
  LET expiryTime == getSecureItem(c, "tokenExpiry")
  IN  IF expiryTime = Absent THEN TRUE ELSE c.now >= expiryTime[1]

\* isTokenExpiringSoon()
isTokenExpiringSoon(c) ==
  LET expiryTime == getSecureItem(c, "tokenExpiry")
      fiveMinutesFromNow == c.now + ExpiryWindow
  IN  IF expiryTime = Absent THEN TRUE ELSE fiveMinutesFromNow >= expiryTime[1]

\* Errors: ky's HTTPError with its response status, the TypeError of a failed
\* fetch, ky's TimeoutError.
NoError == [k |-> "none", status |-> 0]
HttpError(status) == [k |-> "http", status |-> status]
FetchFailed == [k |-> "network", status |-> 0]
TimeoutError == [k |-> "timeout", status |-> 0]
\* The TypeError of a failed fetch on React Native: "Network request failed".
NetworkRequestFailed == [k |-> "typeerror", status |-> 0]

\* The rejections of refreshAccessToken: an Error with its message and the
\* error it carries as its cause, if any.
NoRejection == [k |-> "none", cause |-> NoError]
\* line 186: throw new Error("No refresh token available")
NoRefreshTokenError == [k |-> "No refresh token available", cause |-> NoError]

\* Mutant of tokenRefreshFailed: the caught error is rethrown as it is.
tokenRefreshFailed_rethrows(error) == [k |-> error.k, cause |-> NoError]

\* lines 233-236: the caught error is logged and a new Error is thrown
tokenRefreshFailed(error) == [k |-> "Token refresh failed", cause |-> NoError]

\* What a caller has of the renewal promise it awaits: nothing yet, the new
\* access token, or the rejection; cause is the error performTokenRefresh
\* caught and logged.
NoOutcome == [st |-> "none", val |-> NoToken, rej |-> NoRejection, cause |-> NoError]

\* Mutant of refreshJoins: the in-flight renewal is never reused.
refreshJoins_never(c) == FALSE

\* refreshAccessToken(), line 180: an in-flight renewal is returned as it is
refreshJoins(c) == c.tm.isRefreshing /\ c.tm.refreshPromise # 0

\* Mutant of refreshAccessToken: a missing refresh token clears the
\* credentials before the throw.
refreshAccessToken_clearsOnMissing(c, waitPc) ==
  IF refreshJoins(c)
    THEN [c EXCEPT !.me.pc = waitPc, !.me.tk = c.tm.refreshPromise,
                   !.me.owner = FALSE, !.me.got = NoOutcome,
                   !.me.threw = FALSE,
                   !.me.nRenew = @ + 1]
    ELSE LET refreshToken == getRefreshToken(c)
             c1 == getRefreshTokenLoad(c)
             t == CHOOSE x \in Tickets \ c.busy :
                    \A y \in Tickets \ c.busy : x <= y
         IN  IF refreshToken = NoToken
               THEN [clearTokens(c1) EXCEPT !.me.threw = TRUE,
                               !.me.got = [NoOutcome EXCEPT !.st = "threw",
                                             !.rej = NoRefreshTokenError]]
               ELSE [c1 EXCEPT !.tm.isRefreshing = TRUE,
                               !.tm.refreshPromise = t,
                               !.tickets = @ \cup {t},
                               !.me.pc = waitPc, !.me.tk = t,
                               !.me.owner = TRUE,
                               !.me.got = NoOutcome,
                               !.me.threw = FALSE,
                               !.me.nRenew = @ + 1]

\* refreshAccessToken() up to its first suspension.  The caller c.me ends
\*  - awaiting a renewal promise (me.pc = waitPc, me.tk the promise; me.owner
\*    when this call created it and awaits it at line 193), or
\*  - with me.threw = TRUE: "No refresh token available".
\* performTokenRefresh(refreshToken) starts the renewal network call; the new
\* promise takes the first identity that no caller awaits.
refreshAccessToken(c, waitPc) ==
  IF refreshJoins(c)
    THEN [c EXCEPT !.me.pc = waitPc, !.me.tk = c.tm.refreshPromise,
                   !.me.owner = FALSE, !.me.got = NoOutcome,
                   !.me.threw = FALSE,
                   !.me.nRenew = @ + 1]
    ELSE LET refreshToken == getRefreshToken(c)
             c1 == getRefreshTokenLoad(c)
             t == CHOOSE x \in Tickets \ c.busy :
                    \A y \in Tickets \ c.busy : x <= y
         IN  IF refreshToken = NoToken
               THEN [c1 EXCEPT !.me.threw = TRUE,
                               !.me.got = [NoOutcome EXCEPT !.st = "threw",
                                             !.rej = NoRefreshTokenError]]
               ELSE [c1 EXCEPT !.tm.isRefreshing = TRUE,
                               !.tm.refreshPromise = t,
                               !.tickets = @ \cup {t},
                               !.me.pc = waitPc, !.me.tk = t,
                               !.me.owner = TRUE,
                               !.me.got = NoOutcome,
                               !.me.threw = FALSE,
                               !.me.nRenew = @ + 1]

\* useAuthStore.setTokens / login: the store part (isAuthenticated: true)
storeSetAuthenticated(c) == [c EXCEPT !.auth.isAuthenticated = TRUE]

\* useAuthStore.logout(): tokenManager.clearTokens() and the store reset
storeLogout(c) ==
  [clearTokens(c) EXCEPT !.auth.isAuthenticated = FALSE]

\* Mutant of handleUnauthorizedError: the auth store is left as it is.
handleUnauthorizedError_noLogout(c) ==
  [clearTokens(c) EXCEPT !.me.nUnauth = @ + 1]

\* handleUnauthorizedError(): clearTokens, then the auth store's logout
handleUnauthorizedError(c) ==
  LET c1 == clearTokens(c)
      c2 == storeLogout(c1)
  IN  [c2 EXCEPT !.me.nUnauth = @ + 1]

\* ------------------------------------------------------ failures and ky

\* What the renewal call of performTokenRefresh can fail with.
RenewalErrors == {HttpError(UNAUTHORIZED), FetchFailed}

\* What the transport can answer to a dispatched request: a response with a
\* status, a timeout of the request, or a failure of fetch.
AllResponses ==
  {HttpError(OK), HttpError(UNAUTHORIZED), HttpError(FORBIDDEN),
   HttpError(NOT_FOUND), HttpError(CONFLICT), HttpError(UNPROCESSABLE_ENTITY),
   HttpError(TOO_MANY_REQUESTS),
   HttpError(INTERNAL_SERVER_ERROR), HttpError(NOT_IMPLEMENTED),
   TimeoutError, FetchFailed, NetworkRequestFailed}

\* The answers that requests pending together are explored with.
Responses ==
  {HttpError(OK), HttpError(UNAUTHORIZED), HttpError(FORBIDDEN),
   HttpError(INTERNAL_SERVER_ERROR)}

\* Mutant of getErrorTypeByStatus: the case of 409 is missing.
getErrorTypeByStatus_noConflict(status) ==
  CASE status = UNAUTHORIZED -> "AUTHENTICATION_ERROR"
    [] status = FORBIDDEN -> "AUTHORIZATION_ERROR"
    [] status = NOT_FOUND -> "NOT_FOUND_ERROR"
    [] status = UNPROCESSABLE_ENTITY -> "VALIDATION_ERROR"
    [] status = INTERNAL_SERVER_ERROR -> "SERVER_ERROR"
    [] OTHER -> IF status >= 400 /\ status < 500 THEN "VALIDATION_ERROR"
                ELSE IF status >= 500 THEN "SERVER_ERROR"
                ELSE "UNKNOWN_ERROR"

\* ErrorClassifier.getErrorTypeByStatus
getErrorTypeByStatus(status) ==
  CASE status = UNAUTHORIZED -> "AUTHENTICATION_ERROR"
    [] status = FORBIDDEN -> "AUTHORIZATION_ERROR"
    [] status = NOT_FOUND -> "NOT_FOUND_ERROR"
    [] status = CONFLICT -> "CONFLICT_ERROR"
    [] status = UNPROCESSABLE_ENTITY -> "VALIDATION_ERROR"
    [] status = INTERNAL_SERVER_ERROR -> "SERVER_ERROR"
    [] OTHER -> IF status >= 400 /\ status < 500 THEN "VALIDATION_ERROR"
                ELSE IF status >= 500 THEN "SERVER_ERROR"
                ELSE "UNKNOWN_ERROR"

\* The failures classify can be given besides the errors of the api client:
\* an object whose response field is null or undefined, an Error of another
\* kind, a string, null or undefined, an object of another shape.
NullResponse == [k |-> "nullresponse", status |-> 0]
PlainError == [k |-> "error", status |-> 0]
StringError == [k |-> "string", status |-> 0]
NullError == [k |-> "null", status |-> 0]
ObjectError == [k |-> "object", status |-> 0]

ErrorTypes ==
  {"NETWORK_ERROR", "AUTHENTICATION_ERROR", "AUTHORIZATION_ERROR",
   "VALIDATION_ERROR", "NOT_FOUND_ERROR", "CONFLICT_ERROR", "SERVER_ERROR",
   "UNKNOWN_ERROR"}

\* A StructuredError: its type and its status (NoStatus: undefined).  raised
\* stands for classify ending in a TypeError instead of returning.
NoStatus == 0
StructuredError(type, status) ==
  [raised |-> FALSE, type |-> type, status |-> status]
ClassifyRaised == [raised |-> TRUE, type |-> "none", status |-> NoStatus]
NoStructured == [raised |-> FALSE, type |-> "none", status |-> NoStatus]

\* ErrorClassifier.classify(error).  An object with a response field is read
\* as an HTTPError: its response.status is classified, and reading the status
\* of a null or undefined response raises.  An Error is a network error when
\* it is a TypeError whose message names fetch, and unknown otherwise (ky's
\* TimeoutError, a TypeError with another message); anything else is unknown.
classify(error) ==
  IF error.k \in {"http", "nullresponse"}
    THEN IF error.k = "nullresponse"
           THEN ClassifyRaised
           ELSE StructuredError(getErrorTypeByStatus(error.status), error.status)
    ELSE IF error.k = "network"
      THEN StructuredError("NETWORK_ERROR", NoStatus)
      ELSE StructuredError("UNKNOWN_ERROR", NoStatus)

\* The options of ErrorHandler.handle: logError and showToast (on unless
\* false), silent, a customHandler (none, one that returns, one that throws)
\* and a toastInstance (none, one whose show returns, one whose show throws).
HandlerKinds == {"none", "returns", "throws"}
ErrorHandlingOptions ==
  [logError : BOOLEAN, showToast : BOOLEAN, silent : BOOLEAN,
   customHandler : HandlerKinds, toastInstance : HandlerKinds]
DefaultOptions(silent) ==
  [logError |-> TRUE, showToast |-> TRUE, silent |-> silent,
   customHandler |-> "none", toastInstance |-> "none"]

\* The platform: whether window.location is defined (it is in a browser).
Envs == [location : BOOLEAN]
WebEnv == [location |-> TRUE]

\* The errors raised inside ErrorHandler.handle.
ClassifyTypeError == [k |-> "classify TypeError", status |-> 0]
LocationTypeError == [k |-> "location TypeError", status |-> 0]
ToastError == [k |-> "toast error", status |-> 0]

\* ErrorHandler.handle(error, options) on the platform env: the state it
\* leaves, whether it rejected and with what, and whether the default handler
\* ran.  logError reads window.location.href; a throwing customHandler is
\* caught; the default handler runs unless options.silent, and the one of an
\* authentication error is handleUnauthorizedError, which reads
\* window.location.pathname after the session reset; the toast is shown last.
handle(c, error, options, env) ==
  LET structuredError == classify(error)
      c1 == [c EXCEPT !.me.nHandle = @ + 1, !.me.silent = options.silent]
      auth401 == structuredError.type = "AUTHENTICATION_ERROR"
      c2 == IF ~options.silent /\ auth401 THEN handleUnauthorizedError(c1)
                                           ELSE c1
  IN  IF structuredError.raised
        THEN [c |-> c, rejected |-> TRUE, rejection |-> ClassifyTypeError,
              ranDefault |-> FALSE]
      ELSE IF options.logError /\ ~env.location
        THEN [c |-> c1, rejected |-> TRUE, rejection |-> LocationTypeError,
              ranDefault |-> FALSE]
      ELSE IF ~options.silent /\ auth401 /\ ~env.location
        THEN [c |-> c2, rejected |-> TRUE, rejection |-> LocationTypeError,
              ranDefault |-> TRUE]
      ELSE IF /\ options.showToast /\ ~options.silent
              /\ options.toastInstance = "throws"
        THEN [c |-> c2, rejected |-> TRUE, rejection |-> ToastError,
              ranDefault |-> TRUE]
      ELSE [c |-> c2, rejected |-> FALSE, rejection |-> NoError,
            ranDefault |-> ~options.silent]

\* ErrorHandler.handle(error, options) as the api client calls it in a
\* browser, with no option but silent.
ErrorHandler_handle(c, error, silent) ==
  handle(c, error, DefaultOptions(silent), WebEnv).c

\* handleApiError(error, options) in the catch of apiUtils.get/post/...:
\* await ErrorHandler.handle, then throw error to the caller.
handleApiError(c, error, silent) ==
  [ErrorHandler_handle(c, error, silent) EXCEPT !.me.pc = "done",
                                                !.me.res = "fail",
                                                !.me.surfaced = error]

\* Mutant of kyRetryDelay: the backoff halves.
kyRetryDelay_halving(retryCount) == 1200 \div (2 ^ (retryCount - 1))

\* ky's default retry.delay, which the retry config leaves in place:
\* 0.3 * 2^(attemptCount - 1) seconds, in milliseconds.
kyRetryDelay(retryCount) == 300 * (2 ^ (retryCount - 1))

\* Mutant of kyRetries: one retry only.
kyRetries_once(error, retryCount) ==
  /\ retryCount < RetryLimit
  /\ error.k # "timeout"
  /\ error.k = "http" => error.status \in RetryStatusCodes

\* Mutant of kyRetries: every status is retried.
kyRetries_anyStatus(error, retryCount) ==
  /\ retryCount <= RetryLimit
  /\ error.k # "timeout"

\* ky, Ky._calculateRetryDelay under retry: {limit: 2, statusCodes: [...]}:
\* TRUE when the failure, the retryCount-th of the request, is retried.
kyRetries(error, retryCount) ==
  /\ retryCount <= RetryLimit
  /\ error.k # "timeout"
  /\ error.k = "http" => error.status \in RetryStatusCodes

\* The request leaves for the network with the headers it now has.
sendRequest(c) ==
  LET accessToken == getAccessToken(c)
      c1 == getAccessTokenLoad(c)
  IN  [c1 EXCEPT !.me.header = IF accessToken # NoToken THEN accessToken ELSE @,
                 !.me.pc = "net",
                 !.me.nFetch = @ + 1,
                 !.me.err = NoError, !.me.got = NoOutcome,
                 !.me.tk = 0, !.me.owner = FALSE, !.me.stale = NoToken]

\* hooks.beforeRequest, up to the await of the pre-flight renewal or, without
\* one, up to the dispatch.
beforeRequest(c) ==
  LET soon == isTokenExpiringSoon(c)
      c0 == IF soon THEN getRefreshTokenLoad(c) ELSE c
  IN  IF soon /\ getRefreshToken(c) # NoToken
        THEN LET c1 == refreshAccessToken(
                         [c0 EXCEPT !.me.stale = getAccessToken(c0)], "preflight")
             IN  IF c1.me.threw
                   THEN sendRequest(c1)
                   ELSE c1
        ELSE sendRequest(c0)

\* hooks.beforeRequest after the pre-flight renewal settled: a failure is
\* logged and the request goes on.
beforeRequestResume(c) == sendRequest(c)

\* Mutant of beforeRetry: the renewal is attempted at every retry after a 401.
beforeRetry_everyRetry(c, silent) ==
  LET error == c.me.err
  IN  IF error.k = "http" /\ error.status = UNAUTHORIZED
        THEN LET refreshToken == getRefreshToken(c)
                 c1 == getRefreshTokenLoad(c)
             IN  IF refreshToken = NoToken
                   THEN handleApiError(handleUnauthorizedError(c1), error, silent)
                   ELSE LET c2 == refreshAccessToken(c1, "retryRefresh")
                        IN  IF c2.me.threw
                              THEN handleApiError(handleUnauthorizedError(c2),
                                                  error, silent)
                              ELSE c2
        ELSE beforeRequest(c)

\* hooks.beforeRetry with {error, retryCount}, up to its first suspension;
\* when the hook does nothing ky dispatches again through beforeRequest.
beforeRetry(c, silent) ==
  LET error == c.me.err
  IN  IF error.k = "http" /\ error.status = UNAUTHORIZED /\ c.me.retryCount = 1
        THEN LET refreshToken == getRefreshToken(c)
                 c1 == getRefreshTokenLoad(c)
             IN  IF refreshToken = NoToken
                   THEN handleApiError(handleUnauthorizedError(c1), error, silent)
                   ELSE LET c2 == refreshAccessToken(c1, "retryRefresh")
                        IN  IF c2.me.threw
                              THEN handleApiError(handleUnauthorizedError(c2),
                                                  error, silent)
                              ELSE c2
        ELSE beforeRequest(c)

\* hooks.beforeRetry after its renewal settled.
beforeRetryResume(c, silent) ==
  IF c.me.got.st = "ok"
    THEN beforeRequest([c EXCEPT !.me.header = c.me.got.val,
                                 !.me.nRetryRenew = @ + 1])
    ELSE handleApiError(handleUnauthorizedError(c), c.me.err, silent)

\* ky after a response: a 2xx resolves the call; a failure is retried after a
\* delay or thrown into the catch of apiUtils.
kyResponse(c, response, silent) ==
  IF response = HttpError(OK)
    THEN [c EXCEPT !.me.pc = "done", !.me.res = "ok"]
    ELSE LET retryCount == c.me.retryCount + 1
             c2 == [c EXCEPT !.me.retryCount = retryCount,
                             !.me.err = response]
         IN  IF kyRetries(response, retryCount)
               THEN [c2 EXCEPT !.me.pc = "delay"]
               ELSE handleApiError(c2, response, silent)

\* performTokenRefresh after the refresh endpoint answered: on success the new
\* pair is stored (setTokens, then the auth store's setTokens) and the promise
\* resolves with the access token; on failure it rejects.
performTokenRefresh(c, t, ok, accessToken, refreshToken) ==
  LET c1 == [c EXCEPT !.tickets = @ \ {t}]
  IN  IF ok
        THEN storeSetAuthenticated(setTokens(c1, accessToken, refreshToken))
        ELSE c1

\* The promise performTokenRefresh returned, once settled.
promiseOutcome(ok, accessToken, error) ==
  IF ok THEN [NoOutcome EXCEPT !.st = "ok", !.val = accessToken]
        ELSE [NoOutcome EXCEPT !.st = "fail", !.rej = tokenRefreshFailed(error),
                               !.cause = error]

\* Mutant of refreshOwnerContinue: the catch branch forgets refreshPromise.
refreshOwnerContinue_keepsPromise(c, ok) ==
  IF ok THEN [c EXCEPT !.tm.isRefreshing = FALSE, !.tm.refreshPromise = 0]
        ELSE clearTokens([c EXCEPT !.tm.isRefreshing = FALSE])

\* Mutant of refreshOwnerContinue: the catch branch does not clear the tokens.
refreshOwnerContinue_noClear(c, ok) ==
  [c EXCEPT !.tm.isRefreshing = FALSE, !.tm.refreshPromise = 0]

\* Mutant of refreshOwnerContinue: a failed renewal stays in the slot.
refreshOwnerContinue_slotKeptOnFailure(c, ok) ==
  IF ok THEN [c EXCEPT !.tm.isRefreshing = FALSE, !.tm.refreshPromise = 0]
        ELSE clearTokens(c)

\* refreshAccessToken lines 192-202, the continuation of the call that created
\* the promise: the state it leaves.  It is the first reaction of the promise.
refreshOwnerContinue(c, ok) ==
  LET c1 == [c EXCEPT !.tm.isRefreshing = FALSE, !.tm.refreshPromise = 0]
  IN  IF ok THEN c1 ELSE clearTokens(c1)

\* refreshAccessToken lines 192-202: what the creating call settles with.
refreshOwnerOutcome(ok, newAccessToken, error) ==
  promiseOutcome(ok, newAccessToken, error)

\* --------------------------------------------------------------- state

IdleProc ==
  [kind |-> "none", pc |-> "idle", silent |-> FALSE,
   tk |-> 0, owner |-> FALSE, got |-> NoOutcome, threw |-> FALSE,
   retryCount |-> 0, header |-> NoToken, err |-> NoError,
   stale |-> NoToken,
   nFetch |-> 0, nRenew |-> 0, nRetryRenew |-> 0, nHandle |-> 0, nUnauth |-> 0,
   res |-> "none", surfaced |-> NoError]

Awaiting(pr) == pr.pc \in {"preflight", "retryRefresh", "directWait"}

\* The promises that callers other than p still await.
Busy(p) == {procs[q].tk : q \in {r \in Procs : r # p /\ Awaiting(procs[r])}}

Ctx(p) ==
  [tm |-> tm, storage |-> storage, auth |-> auth, tickets |-> tickets,
   now |-> now, busy |-> Busy(p) \cup tickets, me |-> procs[p]]

\* The context of code that runs for no pending caller.
Ctx0 ==
  [tm |-> tm, storage |-> storage, auth |-> auth, tickets |-> tickets,
   now |-> now, busy |-> tickets, me |-> IdleProc]

Commit(c) ==
  /\ tm' = c.tm
  /\ storage' = c.storage
  /\ auth' = c.auth
  /\ tickets' = c.tickets

\* A caller whose awaited renewal promise has settled: its continuation is a
\* queued microtask.
Ready(p) == Awaiting(procs[p]) /\ procs[p].got.st # "none"

\* A call that has settled: the continuation of its caller is a queued
\* microtask too.
Settling(p) == procs[p].pc = "done"

MicrotasksPending == \E p \in Procs : Ready(p) \/ Settling(p)

\* Callers are interchangeable: they are numbered in the order they start.
NextToStart(p) ==
  /\ procs[p].pc = "idle"
  /\ \A q \in Procs : q < p => procs[q].pc # "idle"

\* The tokens some part of the state still holds.
HeldTokens ==
  {tm.accessToken, tm.refreshToken, ItemToken(storage.accessToken),
   ItemToken(storage.refreshToken)}
    \cup {procs[p].header : p \in Procs}
    \cup {procs[p].stale : p \in Procs}
    \cup {procs[p].got.val : p \in Procs}

\* The server issues credentials nobody holds yet (the first such value).
CanIssue == Tokens \ HeldTokens # {}
NewToken == CHOOSE x \in Tokens \ HeldTokens : \A y \in Tokens \ HeldTokens : x <= y

EmptyStorage ==
  [accessToken |-> Absent, refreshToken |-> Absent, tokenExpiry |-> Absent,
   fails |-> FALSE]

\* A storage no access of which succeeds.
FailingStorage == [EmptyStorage EXCEPT !.fails = TRUE]

\* The storage a previous run of the app left: credentials and their expiry.
StoredSession(accessToken, refreshToken, expiryTime) ==
  [accessToken |-> Item(accessToken),
   refreshToken |-> IF refreshToken = NoToken THEN Absent ELSE Item(refreshToken),
   tokenExpiry |-> Item(expiryTime), fails |-> FALSE]

\* No method of the TokenManager has been called.
NoCall ==
  [op |-> "none", prev |-> "none", access |-> NoToken, refresh |-> NoToken,
   expiry |-> 0, tok |-> NoToken, flag |-> FALSE, at |-> 0]

\* The process starts with nothing in memory; storage is empty or holds the
\* credentials and the expiry a previous run of the app wrote.
\* No deduplicated request has been made.
NoOp == 0
IdleCaller == [pc |-> "idle", key |-> NoKey, op |-> NoOp, first |-> FALSE, res |-> "none"]
UnusedOp ==
  [st |-> "unused", key |-> NoKey, aborted |-> FALSE, disturbed |-> FALSE,
   direct |-> FALSE]

\* No retryableRequest call is under way.
IdleRetry ==
  [pc |-> "idle", maxRetries |-> 0, retryDelay |-> 0, failures |-> 0,
   attempt |-> 0, nAttempts |-> 0, delay |-> -1, lastError |-> 0, res |-> "none"]

\* cancelRequest has not been called.
NoCancel == [key |-> NoKey, ret |-> FALSE]

InitDeduplicator ==
  /\ pendingRequests = {}
  /\ ops = [o \in OpIds |-> UnusedOp]
  /\ callers = [c \in Callers |-> IdleCaller]
  /\ clock = 0
  /\ lastSweep = 0
  /\ rr = IdleRetry
  /\ cancelled = NoCancel
  /\ sc = NoCall
  /\ InitUtil

InitAuth ==
  /\ tm = [accessToken |-> NoToken, refreshToken |-> NoToken,
           isRefreshing |-> FALSE, refreshPromise |-> 0]
  /\ \/ /\ storage = EmptyStorage
        /\ auth = [isAuthenticated |-> FALSE]
     \/ /\ \E e \in InitExpiries : storage = StoredSession(1, 1, e)
        /\ auth = [isAuthenticated |-> TRUE]
     \/ /\ storage = StoredSession(1, NoToken, TokenLifetime)
        /\ auth = [isAuthenticated |-> TRUE]
  /\ tickets = {}
  /\ procs = [p \in Procs |-> IdleProc]
  /\ now = 0

\* No failure has been classified or handled; the platform is env.
IdleHandle(env) ==
  [pc |-> "idle", env |-> env, error |-> NoError,
   options |-> DefaultOptions(FALSE), structured |-> NoStructured,
   thrown |-> NoError, ranDefault |-> FALSE, nUnauth |-> 0]

Init == InitDeduplicator /\ InitAuth /\ hx = IdleHandle(WebEnv)

\* ------------------------------------------------------------- actions
\* options.silent of a call is read once, when the call fails: it is drawn then.

\* apiUtils.get/post/...: the call enters ky, which runs beforeRequest.
StartRequest(p) ==
  /\ ~MicrotasksPending
  /\ NextToStart(p)
  /\ LET c == beforeRequest([Ctx(p) EXCEPT !.me.kind = "request"])
     IN  Commit(c) /\ procs' = [procs EXCEPT ![p] = c.me]
  /\ UNCHANGED <<now, dedupVars>>

\* A direct call of tokenManager.refreshAccessToken().
StartRefresh(p) ==
  /\ ~MicrotasksPending
  /\ NextToStart(p)
  /\ LET c == refreshAccessToken([Ctx(p) EXCEPT !.me.kind = "refresh"],
                                 "directWait")
         d == IF c.me.threw
                THEN [c EXCEPT !.me.pc = "done", !.me.res = "fail"]
                ELSE c
     IN  Commit(d) /\ procs' = [procs EXCEPT ![p] = d.me]
  /\ UNCHANGED <<now, dedupVars>>

\* The direct caller's await of refreshAccessToken() completes.
ResumeRefresh(p) ==
  /\ Ready(p)
  /\ procs[p].pc = "directWait"
  /\ procs' = [procs EXCEPT ![p].pc = "done",
                            ![p].res = IF procs[p].got.st = "ok" THEN "ok" ELSE "fail"]
  /\ UNCHANGED <<tm, storage, auth, tickets, now, dedupVars>>

\* beforeRequest continues after its pre-flight renewal.
ResumePreflight(p) ==
  /\ Ready(p)
  /\ procs[p].pc = "preflight"
  /\ LET c == beforeRequestResume(Ctx(p))
     IN  Commit(c) /\ procs' = [procs EXCEPT ![p] = c.me]
  /\ UNCHANGED <<now, dedupVars>>

\* beforeRetry continues after its renewal.
ResumeRetry(p) ==
  /\ Ready(p)
  /\ procs[p].pc = "retryRefresh"
  /\ \E silent \in BOOLEAN :
       LET c == beforeRetryResume(Ctx(p), silent)
       IN  Commit(c) /\ procs' = [procs EXCEPT ![p] = c.me]
  /\ UNCHANGED <<now, dedupVars>>

\* The transport answers a dispatched request with one of rs.
ResponseFrom(p, rs) ==
  /\ ~MicrotasksPending
  /\ procs[p].pc = "net"
  /\ \E response \in rs, silent \in BOOLEAN :
       LET c == kyResponse(Ctx(p), response, silent)
       IN  Commit(c) /\ procs' = [procs EXCEPT ![p] = c.me]
  /\ UNCHANGED <<now, dedupVars>>

\* The transport answers a dispatched request.
Response(p) == ResponseFrom(p, Responses)

\* ky's retry delay elapses: beforeRetry runs.
RetryDelayElapsed(p) ==
  /\ ~MicrotasksPending
  /\ procs[p].pc = "delay"
  /\ \E silent \in BOOLEAN :
       LET c == beforeRetry(Ctx(p), silent)
       IN  Commit(c) /\ procs' = [procs EXCEPT ![p] = c.me]
  /\ UNCHANGED <<now, dedupVars>>

\* Mutant of Settle: only the call that created the promise gets its outcome.
Settle_ownerOnly(t, ok, token, error) ==
  LET c == refreshOwnerContinue(
             performTokenRefresh(Ctx0, t, ok, token, token), ok)
  IN  /\ Commit(c)
      /\ procs' = [p \in Procs |->
           IF Awaiting(procs[p]) /\ procs[p].tk = t /\ procs[p].owner
             THEN [procs[p] EXCEPT !.got = refreshOwnerOutcome(ok, token, error)]
             ELSE procs[p]]
      /\ UNCHANGED <<now, dedupVars>>

\* The renewal call of promise t is answered: performTokenRefresh finishes, the
\* creating refreshAccessToken call continues, and every caller that awaits
\* the promise gets its outcome.
Settle(t, ok, token, error) ==
  LET c == refreshOwnerContinue(
             performTokenRefresh(Ctx0, t, ok, token, token), ok)
  IN  /\ Commit(c)
      /\ procs' = [p \in Procs |->
           IF Awaiting(procs[p]) /\ procs[p].tk = t
             THEN [procs[p] EXCEPT !.got =
                     IF procs[p].owner THEN refreshOwnerOutcome(ok, token, error)
                                       ELSE promiseOutcome(ok, token, error)]
             ELSE procs[p]]
      /\ UNCHANGED <<now, dedupVars>>

\* The refresh endpoint answers with a new credential pair.
RenewalSucceeds(t) ==
  /\ ~MicrotasksPending
  /\ t \in tickets
  /\ CanIssue
  /\ Settle(t, TRUE, NewToken, NoError)

\* The refresh endpoint rejects, or the renewal call fails or times out.
RenewalFails(t) ==
  /\ ~MicrotasksPending
  /\ t \in tickets
  /\ \E error \in RenewalErrors : Settle(t, FALSE, NoToken, error)

\* useAuthStore.login(response) after a sign-in.
Login ==
  /\ ~MicrotasksPending
  /\ ~auth.isAuthenticated
  /\ CanIssue
  /\ Commit(storeSetAuthenticated(setTokens(Ctx0, NewToken, NewToken)))
  /\ UNCHANGED <<procs, now, dedupVars>>

\* useAuthStore.logout() from the user.
Logout ==
  /\ ~MicrotasksPending
  /\ auth.isAuthenticated
  /\ Commit(storeLogout(Ctx0))
  /\ UNCHANGED <<procs, now, dedupVars>>

\* The caller of a settled call takes its result or its rejection; the record
\* of the call is dropped.
Return(p) ==
  /\ Settling(p)
  /\ procs' = [procs EXCEPT ![p] = [IdleProc EXCEPT !.pc = "returned"]]
  /\ UNCHANGED <<tm, storage, auth, tickets, now, dedupVars>>

\* Time passes.
Tick ==
  /\ ~MicrotasksPending
  /\ \E d \in TickSizes : now + d <= MaxNow /\ now' = now + d
  /\ UNCHANGED <<tm, storage, auth, tickets, procs, dedupVars>>

Next ==
  \/ \E p \in Procs : StartRequest(p)
  \/ \E p \in Procs : StartRefresh(p)
  \/ \E p \in Procs : ResumeRefresh(p)
  \/ \E p \in Procs : ResumePreflight(p)
  \/ \E p \in Procs : ResumeRetry(p)
  \/ \E p \in Procs : Response(p)
  \/ \E p \in Procs : RetryDelayElapsed(p)
  \/ \E p \in Procs : Return(p)
  \/ \E t \in Tickets : RenewalSucceeds(t)
  \/ \E t \in Tickets : RenewalFails(t)
  \/ Login
  \/ Logout
  \/ Tick

Spec == Init /\ [][Next]_vars

\* -------------------------------------------------- RequestDeduplicator

\* Map.get(key): the entries under the key.
mapGet(m, key) == {e \in m : e.key = key}
\* Mutant of mapDelete: nothing is deleted.
mapDelete_keeps(m, key) == m
\* Map.delete(key)
mapDelete(m, key) == {e \in m : e.key # key}
\* Map.set(key, value)
mapSet(m, key, value) == mapDelete(m, key) \cup {value}

\* RequestDeduplicator.getStatus(), the registry's part of it
getStatus(m) == [pendingCount |-> Cardinality(m)]

\* Mutant of abortAll: no controller is signalled.
abortAll_none(os, es) == os

\* controller.abort() of each of the entries es; an operation that has settled
\* is past its signal.
abortAll(os, es) ==
  [o \in OpIds |->
     IF (\E e \in es : e.op = o) /\ os[o].st = "running"
       THEN [os[o] EXCEPT !.aborted = TRUE]
       ELSE os[o]]

\* The running operations under the keys ks have seen a cancel or a sweep.
disturb(os, ks) ==
  [o \in OpIds |->
     IF os[o].st = "running" /\ os[o].key \in ks
       THEN [os[o] EXCEPT !.disturbed = TRUE]
       ELSE os[o]]

UnusedOps == {o \in OpIds : ops[o].st = "unused"}
\* requestFn(controller.signal) starts the next operation.
NextOp == CHOOSE o \in UnusedOps : \A q \in UnusedOps : o <= q

\* The setInterval callback is due and has not run at this instant.
SweepDue == clock > 0 /\ clock % CLEANUP_INTERVAL = 0 /\ lastSweep # clock

\* The authentication side stands still while the deduplicator is explored.
AuthStill ==
  /\ tm = [accessToken |-> NoToken, refreshToken |-> NoToken,
           isRefreshing |-> FALSE, refreshPromise |-> 0]
  /\ storage = EmptyStorage
  /\ auth = [isAuthenticated |-> FALSE]
  /\ tickets = {}
  /\ procs = [p \in Procs |-> IdleProc]
  /\ now = 0

InitDedup == InitDeduplicator /\ AuthStill /\ hx = IdleHandle(WebEnv)

\* RequestDeduplicator.deduplicate(key, requestFn), up to its return
deduplicate(c, key) ==
  /\ callers[c].pc = "idle"
  /\ LET existingRequest == mapGet(pendingRequests, key)
     IN  IF existingRequest # {}
           THEN /\ \E e \in existingRequest :
                     callers' = [callers EXCEPT ![c] =
                                   [pc |-> "waiting", key |-> key, op |-> e.op,
                                    first |-> FALSE, res |-> "none"]]
                /\ UNCHANGED <<pendingRequests, ops>>
           ELSE /\ UnusedOps # {}
                /\ ops' = [ops EXCEPT ![NextOp] =
                             [st |-> "running", key |-> key,
                              aborted |-> FALSE, disturbed |-> FALSE,
                              direct |-> FALSE]]
                /\ pendingRequests' =
                     mapSet(pendingRequests, key,
                            [key |-> key, op |-> NextOp, timestamp |-> clock])
                /\ callers' = [callers EXCEPT ![c] =
                                 [pc |-> "waiting", key |-> key, op |-> NextOp,
                                  first |-> TRUE, res |-> "none"]]
  /\ UNCHANGED <<clock, lastSweep, authVars, rr, cancelled, hx, sc, utilVars>>

\* The operation's promise settles: the .finally callback of deduplicate runs
\* and then the callers that hold the promise resume.
OpSettles(o, result) ==
  /\ ops[o].st = "running"
  /\ ops' = [ops EXCEPT ![o].st = "settled"]
  /\ pendingRequests' = IF ops[o].direct
                          THEN pendingRequests
                          ELSE mapDelete(pendingRequests, ops[o].key)
  /\ callers' = [c \in Callers |->
                   IF callers[c].pc = "waiting" /\ callers[c].op = o
                     THEN [callers[c] EXCEPT !.pc = "got", !.res = result]
                     ELSE callers[c]]
  /\ UNCHANGED <<clock, lastSweep, authVars, rr, cancelled, hx, sc, utilVars>>

\* The caller of deduplicate has its result and is free to call again.
CallerReturns(c) ==
  /\ callers[c].pc = "got"
  /\ callers' = [callers EXCEPT ![c] = IdleCaller]
  /\ UNCHANGED <<pendingRequests, ops, clock, lastSweep, authVars, rr, cancelled, hx, sc, utilVars>>

\* Mutant of cancelRequest: every registered controller is signalled.
cancelRequest_abortsAll(key) ==
  /\ LET request == mapGet(pendingRequests, key)
     IN  /\ ops' = disturb(abortAll(ops, pendingRequests), {key})
         /\ pendingRequests' = IF request # {}
                                 THEN mapDelete(pendingRequests, key)
                                 ELSE pendingRequests
         /\ cancelled' = [key |-> key, ret |-> request # {}]
  /\ UNCHANGED <<callers, clock, lastSweep, authVars, rr, hx, sc, utilVars>>

\* RequestDeduplicator.cancelRequest(key)
cancelRequest(key) ==
  /\ LET request == mapGet(pendingRequests, key)
     IN  /\ ops' = disturb(abortAll(ops, request), {key})
         /\ pendingRequests' = IF request # {}
                                 THEN mapDelete(pendingRequests, key)
                                 ELSE pendingRequests
         /\ cancelled' = IF request # {}
                           THEN [key |-> key, ret |-> TRUE]
                           ELSE [key |-> key, ret |-> FALSE]
  /\ UNCHANGED <<callers, clock, lastSweep, authVars, rr, hx, sc, utilVars>>

\* RequestDeduplicator.cancelAllRequests()
cancelAllRequests ==
  /\ ops' = disturb(abortAll(ops, pendingRequests), Keys)
  /\ pendingRequests' = {}
  /\ UNCHANGED <<callers, clock, lastSweep, authVars, rr, cancelled, hx, sc, utilVars>>

\* Mutant of expiredRequests: an entry expires at PENDING_TIMEOUT.
expiredRequests_atTimeout(m, t) == {e \in m : t - e.timestamp >= PENDING_TIMEOUT}

\* The entries cleanupExpiredRequests finds expired.
expiredRequests(m, t) == {e \in m : t - e.timestamp > PENDING_TIMEOUT}

\* RequestDeduplicator.cleanupExpiredRequests(), run by the setInterval callback
cleanupExpiredRequests ==
  /\ SweepDue
  /\ LET expired == expiredRequests(pendingRequests, clock)
     IN  /\ ops' = disturb(abortAll(ops, expired), Keys)
         /\ pendingRequests' = pendingRequests \ expired
  /\ lastSweep' = clock
  /\ UNCHANGED <<callers, clock, authVars, rr, cancelled, hx, sc, utilVars>>

\* Time passes, up to the next run of the setInterval callback.
ClockTick ==
  /\ ~SweepDue
  /\ \E d \in ClockSteps : clock + d <= MaxClock /\ clock' = clock + d
  /\ UNCHANGED <<pendingRequests, ops, callers, lastSweep, authVars, rr, cancelled, hx, sc, utilVars>>

NextDedup ==
  \/ \E c \in Callers, k \in Keys : deduplicate(c, k)
  \/ \E o \in OpIds, r \in {"ok", "fail"} : OpSettles(o, r)
  \/ \E c \in Callers : CallerReturns(c)
  \/ \E k \in Keys : cancelRequest(k)
  \/ cancelAllRequests
  \/ cleanupExpiredRequests
  \/ ClockTick

SpecDedup == InitDedup /\ [][NextDedup]_vars

\* -------------------------------------------------------------- apiUtils

\* The urls, request bodies and deduplication options the calls are made with.
Urls == 1..NUrls
Bodies == {"{name}"}
DedupOptions == {"absent", "enabled", "disabled"}
MutatingMethods == {"POST", "PUT", "PATCH"}

\* The keys that callers cancel: those of the reads.
CancelKeys == {createRequestKey(url, "GET", NoData) : url \in Urls}

\* requestFn(controller.signal) with a controller of the call's own: the
\* operation runs outside the registry.
requestDirect(c, key) ==
  /\ callers[c].pc = "idle"
  /\ UnusedOps # {}
  /\ ops' = [ops EXCEPT ![NextOp] =
               [st |-> "running", key |-> key,
                aborted |-> FALSE, disturbed |-> FALSE, direct |-> TRUE]]
  /\ callers' = [callers EXCEPT ![c] =
                   [pc |-> "waiting", key |-> key, op |-> NextOp,
                    first |-> TRUE, res |-> "none"]]
  /\ UNCHANGED <<pendingRequests, clock, lastSweep, authVars, rr, cancelled, hx, sc, utilVars>>

\* apiUtils.get(url, options), up to the await of the request:
\* deduplicated unless deduplication.enabled === false
apiUtils_get(c, url, deduplication) ==
  IF deduplication # "disabled"
    THEN deduplicate(c, createRequestKey(url, "GET", NoData))
    ELSE requestDirect(c, createRequestKey(url, "GET", NoData))

\* apiUtils.post/put/patch(url, data, options), up to the await of the
\* request: deduplicated only when deduplication.enabled === true
apiUtils_mutate(c, method, url, data, deduplication) ==
  IF deduplication = "enabled"
    THEN deduplicate(c, createRequestKey(url, method, data))
    ELSE requestDirect(c, createRequestKey(url, method, data))

\* apiUtils.delete(url, options), up to the await of the request
apiUtils_delete(c, url, deduplication) ==
  IF deduplication = "enabled"
    THEN deduplicate(c, createRequestKey(url, "DELETE", NoData))
    ELSE requestDirect(c, createRequestKey(url, "DELETE", NoData))

NextApi ==
  \/ \E c \in Callers, url \in Urls, d \in DedupOptions : apiUtils_get(c, url, d)
  \/ \E c \in Callers, m \in MutatingMethods, url \in Urls, data \in Bodies,
        d \in DedupOptions : apiUtils_mutate(c, m, url, data, d)
  \/ \E c \in Callers, url \in Urls, d \in DedupOptions : apiUtils_delete(c, url, d)
  \/ \E o \in OpIds, r \in {"ok", "fail"} : OpSettles(o, r)
  \/ \E c \in Callers : CallerReturns(c)
  \/ \E k \in CancelKeys : cancelRequest(k)

SpecApi == InitDedup /\ [][NextApi]_vars

\* ------------------------------------------- classifying and handling

Statuses == MinStatus..MaxStatus

\* What ErrorClassifier.classify is given.
RawErrors ==
  {HttpError(status) : status \in Statuses}
    \cup {NullResponse, FetchFailed, NetworkRequestFailed, TimeoutError,
          PlainError, StringError, NullError, ObjectError}

\* What the catch of an apiUtils call is given: the failures of the api client
\* and an Error of another kind (a body that does not parse).
CaughtErrors == (AllResponses \ {HttpError(OK)}) \cup {PlainError}

\* ErrorClassifier.classify(error), called as classifyError
classifyError(error) ==
  /\ hx.pc = "idle"
  /\ hx' = [hx EXCEPT !.pc = "classified", !.error = error,
                      !.structured = classify(error)]
  /\ UNCHANGED <<authVars, pendingRequests, ops, callers, clock, lastSweep, rr,
                 cancelled, sc, utilVars>>

\* An apiUtils call fails with error: handleApiError(error, options) awaits
\* ErrorHandler.handle and then throws error; a rejection of handle is thrown
\* in its place.
apiCallFails(error, options) ==
  /\ hx.pc = "idle"
  /\ LET r == handle(Ctx0, error, options, hx.env)
     IN  /\ Commit(r.c)
         /\ hx' = [hx EXCEPT !.pc = "thrown", !.error = error,
                             !.options = options,
                             !.structured = classify(error),
                             !.thrown = IF r.rejected THEN r.rejection
                                                      ELSE error,
                             !.ranDefault = r.ranDefault,
                             !.nUnauth = r.c.me.nUnauth]
  /\ UNCHANGED <<procs, now, pendingRequests, ops, callers, clock, lastSweep,
                 rr, cancelled, sc, utilVars>>

InitHandle ==
  /\ InitDeduplicator /\ InitAuth
  /\ \E env \in Envs : hx = IdleHandle(env)

NextHandle ==
  \/ \E error \in RawErrors : classifyError(error)
  \/ \E error \in CaughtErrors, options \in ErrorHandlingOptions :
       apiCallFails(error, options)

SpecHandle == InitHandle /\ [][NextHandle]_vars

\* ------------------------------------------- the TokenManager's own methods

\* A public method of the TokenManager is called, outside any request: c is
\* the state it leaves, tok or flag the value it returns.
StoreCall(op, c, tok, flag) ==
  /\ Commit(c)
  /\ sc' = [sc EXCEPT !.op = op, !.prev = sc.op, !.tok = tok, !.flag = flag,
                      !.at = now]
  /\ UNCHANGED <<procs, now, pendingRequests, ops, callers, clock, lastSweep,
                 rr, cancelled, hx, utilVars>>

\* tokenManager.setTokens(accessToken, refreshToken?)
SetTokensCall(accessToken, refreshToken) ==
  /\ Commit(setTokens(Ctx0, accessToken, refreshToken))
  /\ sc' = [op |-> "setTokens", prev |-> sc.op, access |-> accessToken,
            refresh |-> refreshToken, expiry |-> now + TokenLifetime,
            tok |-> NoToken, flag |-> FALSE, at |-> now]
  /\ UNCHANGED <<procs, now, pendingRequests, ops, callers, clock, lastSweep,
                 rr, cancelled, hx, utilVars>>

\* tokenManager.clearTokens()
ClearTokensCall == StoreCall("clearTokens", clearTokens(Ctx0), NoToken, FALSE)

\* tokenManager.getAccessToken()
GetAccessTokenCall ==
  StoreCall("getAccessToken", getAccessTokenLoad(Ctx0), getAccessToken(Ctx0),
            FALSE)

\* tokenManager.getRefreshToken()
GetRefreshTokenCall ==
  StoreCall("getRefreshToken", getRefreshTokenLoad(Ctx0),
            getRefreshToken(Ctx0), FALSE)

\* tokenManager.isTokenExpired()
IsTokenExpiredCall ==
  StoreCall("isTokenExpired", Ctx0, NoToken, isTokenExpired(Ctx0))

\* tokenManager.isTokenExpiringSoon()
IsTokenExpiringSoonCall ==
  StoreCall("isTokenExpiringSoon", Ctx0, NoToken, isTokenExpiringSoon(Ctx0))

\* Date.now() advances between two calls.
StoreTick ==
  /\ now + StoreStep <= MaxStoreNow
  /\ now' = now + StoreStep
  /\ UNCHANGED <<tm, storage, auth, tickets, procs, dedupVars>>

\* As InitAuth, or with a storage that cannot be used at all.
InitStore ==
  /\ InitDeduplicator
  /\ hx = IdleHandle(WebEnv)
  /\ \/ InitAuth
     \/ /\ tm = [accessToken |-> NoToken, refreshToken |-> NoToken,
                 isRefreshing |-> FALSE, refreshPromise |-> 0]
        /\ storage = FailingStorage
        /\ auth = [isAuthenticated |-> FALSE]
        /\ tickets = {}
        /\ procs = [p \in Procs |-> IdleProc]
        /\ now = 0

NextStore ==
  \/ \E accessToken \in Tokens, refreshToken \in Tokens \cup {NoToken} :
       SetTokensCall(accessToken, refreshToken)
  \/ ClearTokensCall
  \/ GetAccessTokenCall
  \/ GetRefreshTokenCall
  \/ IsTokenExpiredCall
  \/ IsTokenExpiringSoonCall
  \/ StoreTick

SpecStore == InitStore /\ [][NextStore]_vars

\* ----------------------------------------- persistence of string tokens

\* A token is a non-empty string: a sequence of characters, among them the
\* separator that TokenCrypto puts before its timestamp.
TokenChars == {"a", "b", "|"}
TokenTexts ==
  UNION {[1..n -> TokenChars] : n \in 1..MaxTokenLen}

\* Date.now(), as the characters of its decimal form
Stamps == {<<"1">>, <<"2">>}

\* btoa(encodeURIComponent(s)) is an opaque blob that atob and
\* decodeURIComponent turn back into s.
Encoded(text) == <<"base64", text>>
Decoded(blob) == blob[2]

\* decoded.split("|")[0]: the characters before the first separator
FirstField(text) ==
  LET seps == {i \in 1..Len(text) : text[i] = "|"}
  IN  IF seps = {} THEN text
      ELSE SubSeq(text, 1, (CHOOSE i \in seps : \A j \in seps : i <= j) - 1)

\* TokenCrypto.encrypt(text), called at the time stamp
TokenCrypto_encrypt(text, stamp) == Encoded(text \o <<"|">> \o stamp)

\* TokenCrypto.decrypt(encryptedText)
TokenCrypto_decrypt(encryptedText) == FirstField(Decoded(encryptedText))

\* The value setSecureItem hands to storage.setItem
storedValue(encryptTokens, value, stamp) ==
  IF encryptTokens THEN TokenCrypto_encrypt(value, stamp) ELSE value

\* The value getSecureItem returns for a stored item: null when there is none
readValue(encryptTokens, item) ==
  IF item = NoText THEN NoText
  ELSE IF encryptTokens THEN TokenCrypto_decrypt(item) ELSE item

\* new TokenManager(): NODE_ENV decides whether items are encrypted
PersistConstruct(encryptTokens) ==
  /\ ps.pc = "idle"
  /\ ps' = [ps EXCEPT !.pc = "fresh", !.encryptTokens = encryptTokens]
  /\ UNCHANGED <<coreVars, kx, db, th, cs>>

\* setTokens(a, r) with both tokens supplied
PersistSetTokens(a, r, stamp) ==
  /\ ps.pc = "fresh"
  /\ ps' = [ps EXCEPT !.pc = "set", !.a = a, !.r = r,
                      !.accessToken = a, !.refreshToken = r,
                      !.items = [accessToken |-> storedValue(ps.encryptTokens, a, stamp),
                                 refreshToken |-> storedValue(ps.encryptTokens, r, stamp)]]
  /\ UNCHANGED <<coreVars, kx, db, th, cs>>

\* The process restarts: the fields are null again, the storage is kept.
PersistRestart ==
  /\ ps.pc = "set"
  /\ ps' = [ps EXCEPT !.pc = "restarted", !.accessToken = NoText,
                      !.refreshToken = NoText]
  /\ UNCHANGED <<coreVars, kx, db, th, cs>>

\* getAccessToken() and then getRefreshToken(), after the restart
PersistGetTokens ==
  /\ ps.pc = "restarted"
  /\ LET access == IF ps.accessToken # NoText THEN ps.accessToken
                   ELSE readValue(ps.encryptTokens, ps.items.accessToken)
         loaded == IF ps.accessToken # NoText THEN ps.refreshToken
                   ELSE readValue(ps.encryptTokens, ps.items.refreshToken)
         refresh == IF loaded # NoText THEN loaded
                    ELSE readValue(ps.encryptTokens, ps.items.refreshToken)
     IN  ps' = [ps EXCEPT !.pc = "read", !.accessToken = access,
                          !.refreshToken = refresh, !.gotAccess = access,
                          !.gotRefresh = refresh]
  /\ UNCHANGED <<coreVars, kx, db, th, cs>>

InitPersist == InitDedup

NextPersist ==
  \/ \E encryptTokens \in BOOLEAN : PersistConstruct(encryptTokens)
  \/ \E a \in TokenTexts, r \in TokenTexts, stamp \in Stamps :
       PersistSetTokens(a, r, stamp)
  \/ PersistRestart
  \/ PersistGetTokens

SpecPersist == InitPersist /\ [][NextPersist]_vars

\* ---------------------------------------------- the deduplication key

\* The payloads of post, put and patch calls, as JSON texts.
Payloads == FalsyPayloads \cup {"1", "{name}"}

\* options.searchParams of a call, "" when none is given
SearchParams == {"", "page=1", "page=2"}

\* deduplication.key, NoKey when the caller gives none
OverrideKeys == {NoKey, <<"custom", 0, "k">>}

\* The calls apiUtils.get and apiUtils.post can be given with deduplication
\* enabled; get takes no payload.
KeyedRequests ==
  {req \in [method : {"GET", "POST"}, url : 1..NKeys, data : Payloads,
            searchParams : SearchParams, key : OverrideKeys] :
     req.method = "GET" => req.data = NoData}

\* deduplication?.key || createRequestKey(url, method, data): get and delete
\* pass no data, and no method passes the options
requestKey(req) ==
  IF req.key # NoKey THEN req.key
  ELSE createRequestKey(req.url, req.method,
                        IF req.method \in {"GET", "DELETE"} THEN NoData
                        ELSE req.data)

\* A first call computes its key.
KeyFirst(req) ==
  /\ kx.pc = "idle"
  /\ kx' = [kx EXCEPT !.pc = "one", !.first = req, !.firstKey = requestKey(req)]
  /\ UNCHANGED <<coreVars, ps, db, th, cs>>

\* A second call computes its key.
KeySecond(req) ==
  /\ kx.pc = "one"
  /\ kx' = [kx EXCEPT !.pc = "two", !.second = req, !.secondKey = requestKey(req)]
  /\ UNCHANGED <<coreVars, ps, db, th, cs>>

NextKey ==
  \/ \E req \in KeyedRequests : KeyFirst(req)
  \/ \E req \in KeyedRequests : KeySecond(req)

SpecKey == InitDedup /\ [][NextKey]_vars

\* --------------------------------------------------------------- debounce

\* The calls made so far are numbered from 1; the next call is the first
\* unused number.
UnusedCalls(d) == {n \in CallIds : d.calls[n].st = "unused"}
NextCall(d) == CHOOSE n \in UnusedCalls(d) : \A m \in UnusedCalls(d) : n <= m

\* debounceTimers.get(key): the entries under the key
timerGet(d, key) == {e \in d.timers : e.key = key}

\* debounceTimers.delete(key)
timerDelete(d, key) == [d EXCEPT !.timers = {e \in d.timers : e.key # key}]

\* clearTimeout(timer) for each of the entries es: a cleared timer never fires
clearTimers(d, es) ==
  [d EXCEPT !.calls =
     [n \in CallIds |->
        IF (\E e \in es : e.call = n) /\ d.calls[n].timer = "armed"
          THEN [d.calls[n] EXCEPT !.timer = "cleared"]
          ELSE d.calls[n]]]

\* The function returned by debounce(fn, delay, key) is called, as call n:
\* the timer registered under the key is cleared, a new one is set and
\* registered; the promise returned is pending.
debounced(d, n, key, delay, query) ==
  LET d1 == clearTimers(d, timerGet(d, key))
      d2 == timerDelete(d1, key)
  IN  [d2 EXCEPT !.timers = @ \cup {[key |-> key, call |-> n]},
                 !.calls[n] = [st |-> "waiting", key |-> key, query |-> query,
                               at |-> d.time, due |-> d.time + delay,
                               timer |-> "armed", aborted |-> FALSE,
                               invoked |-> FALSE]]

\* The timer of call n fires: its callback deletes the entry under the key
\* and calls fn.
timerCallback(d, n) ==
  [timerDelete(d, d.calls[n].key) EXCEPT !.calls[n].timer = "fired",
                                         !.calls[n].st = "running"]

\* fn's promise settles: the call's promise is resolved, or, after the entry
\* under the key is deleted once more, rejected.
fnSettled(d, n, ok) ==
  IF ok THEN [d EXCEPT !.calls[n].st = "resolved"]
  ELSE [timerDelete(d, d.calls[n].key) EXCEPT !.calls[n].st = "rejected"]

\* The keys of the debounced functions.
DebounceKeys == {"save", "load"}

\* A debounced function is called.
DebounceCall(key) ==
  /\ UnusedCalls(db) # {}
  /\ db' = debounced(db, NextCall(db), key, 0, "")
  /\ UNCHANGED <<coreVars, ps, kx, th, cs>>

\* The delay of call n has elapsed and its timer was not cleared.
DebounceTimerFires(n) ==
  /\ db.calls[n].timer = "armed"
  /\ db' = timerCallback(db, n)
  /\ UNCHANGED <<coreVars, ps, kx, th, cs>>

\* The promise of fn, called for call n, settles.
DebounceFnSettles(n, ok) ==
  /\ db.calls[n].st = "running"
  /\ db' = fnSettled(db, n, ok)
  /\ UNCHANGED <<coreVars, ps, kx, th, cs>>

\* cleanup(): cancelAllRequests(), every debounce timer cleared, both maps
\* emptied.
cleanup ==
  /\ ops' = disturb(abortAll(ops, pendingRequests), Keys)
  /\ pendingRequests' = {}
  /\ db' = [clearTimers(db, db.timers) EXCEPT !.timers = {}]
  /\ th' = [th EXCEPT !.state = {}]
  /\ UNCHANGED <<authVars, callers, clock, lastSweep, rr, cancelled, hx, sc,
                 ps, kx, cs>>

NextDebounce ==
  \/ \E key \in DebounceKeys : DebounceCall(key)
  \/ \E n \in CallIds : DebounceTimerFires(n)
  \/ \E n \in CallIds, ok \in BOOLEAN : DebounceFnSettles(n, ok)
  \/ cleanup

\* A timer that is not cleared fires, and fn's promise settles.
FairDebounce ==
  \A n \in CallIds :
    /\ WF_vars(DebounceTimerFires(n))
    /\ WF_vars(\E ok \in BOOLEAN : DebounceFnSettles(n, ok))

SpecDebounce == InitDedup /\ [][NextDebounce]_vars /\ FairDebounce

\* -------------------------------------------------- createDebouncedSearch

Queries == {"cat", "dog"}

\* The debounce key of a search: `search_${query}`
searchKey(query) == <<"search", query>>

\* currentController.abort(), when there is a current controller
abortCurrent(d) ==
  IF d.currentController # NoController
    THEN [d EXCEPT !.calls[d.currentController].aborted = TRUE]
    ELSE d

\* The function returned by createDebouncedSearch is called with query, as
\* call n, up to its await: the current controller is aborted, a new one
\* becomes current, and a function debounced under the query's key is called.
debouncedSearch(d, n, query) ==
  debounced([abortCurrent(d) EXCEPT !.currentController = n],
            n, searchKey(query), SearchDelay, query)

\* The await of call n has thrown or returned: currentController = null.
searchReturns(d) == [d EXCEPT !.currentController = NoController]

\* The timer of call n fires: the debounced function throws "Request
\* cancelled" when the call's signal is aborted, and calls searchFn otherwise.
searchTimerCallback(d, n) ==
  LET d1 == timerCallback(d, n)
  IN  IF d1.calls[n].aborted
        THEN searchReturns(fnSettled(d1, n, FALSE))
        ELSE [d1 EXCEPT !.calls[n].invoked = TRUE]

\* A timer is due.
TimerDue(d) ==
  \E n \in CallIds : d.calls[n].timer = "armed" /\ d.calls[n].due <= d.time

\* The search function is called.
SearchCall(query) ==
  /\ UnusedCalls(db) # {}
  /\ db' = debouncedSearch(db, NextCall(db), query)
  /\ UNCHANGED <<coreVars, ps, kx, th, cs>>

\* The timer of call n fires.
SearchTimerFires(n) ==
  /\ db.calls[n].timer = "armed"
  /\ db.calls[n].due <= db.time
  /\ db' = searchTimerCallback(db, n)
  /\ UNCHANGED <<coreVars, ps, kx, th, cs>>

\* searchFn's promise, of call n, settles.
SearchFnSettles(n, ok) ==
  /\ db.calls[n].st = "running"
  /\ db' = searchReturns(fnSettled(db, n, ok))
  /\ UNCHANGED <<coreVars, ps, kx, th, cs>>

\* Time passes, up to the next instant at which something happens.
SearchTimePasses ==
  /\ ~TimerDue(db)
  /\ db.time + SearchStep <= MaxSearchTime
  /\ db' = [db EXCEPT !.time = @ + SearchStep]
  /\ UNCHANGED <<coreVars, ps, kx, th, cs>>

NextSearch ==
  \/ \E query \in Queries : SearchCall(query)
  \/ \E n \in CallIds : SearchTimerFires(n)
  \/ \E n \in CallIds, ok \in BOOLEAN : SearchFnSettles(n, ok)
  \/ SearchTimePasses

SpecSearch == InitDedup /\ [][NextSearch]_vars

\* --------------------------------------------------------------- throttle

\* throttleState.get(throttleKey) || { lastExecuted: 0, isThrottled: false }
throttleGet(t) ==
  IF t.state = {} THEN [lastExecuted |-> 0, isThrottled |-> FALSE]
  ELSE CHOOSE state \in t.state : TRUE

\* fn(...args) starts at the current time.
executeFn(t) == [t EXCEPT !.starts = Append(@, t.time)]

\* The function returned by throttle(fn, limit, key) is called: fn is
\* executed at once, or a trailing execution is scheduled, or the call is
\* rejected with "Request throttled".
throttled(t, limit) ==
  LET state == throttleGet(t)
      timeSinceLastExecution == t.time - state.lastExecuted
      t0 == [t EXCEPT !.nCalls = @ + 1, !.last.scheduled = t.timers # {}]
  IN  IF timeSinceLastExecution >= limit
        THEN executeFn([t0 EXCEPT
               !.state = {[lastExecuted |-> t.time, isThrottled |-> FALSE]},
               !.last.branch = "executed"])
      ELSE IF ~state.isThrottled
        THEN [t0 EXCEPT
               !.state = {[state EXCEPT !.isThrottled = TRUE]},
               !.timers = @ \cup {[due |-> t.time + (limit - timeSinceLastExecution),
                                    call |-> t.nCalls + 1]},
               !.last.branch = "scheduled"]
      ELSE [t0 EXCEPT !.last.branch = "rejected"]

\* The trailing timer fires: the state still in the map is updated, and fn is
\* executed.
trailingCallback(t, timer) ==
  executeFn([t EXCEPT
    !.timers = @ \ {timer},
    !.state = IF t.state = {} THEN {}
              ELSE {[lastExecuted |-> t.time, isThrottled |-> FALSE]}])

\* The throttled function is called.
ThrottleCall ==
  /\ th.nCalls < MaxThrottleCalls
  /\ th' = throttled(th, ThrottleLimit)
  /\ UNCHANGED <<coreVars, ps, kx, db, cs>>

\* A trailing timer fires, at its due time or later.
ThrottleTimerFires ==
  /\ \E timer \in th.timers :
       /\ timer.due <= th.time
       /\ th' = trailingCallback(th, timer)
  /\ UNCHANGED <<coreVars, ps, kx, db, cs>>

\* Time passes.
ThrottleTimePasses ==
  /\ th.time + ThrottleStep <= MaxThrottleTime
  /\ th' = [th EXCEPT !.time = @ + ThrottleStep]
  /\ UNCHANGED <<coreVars, ps, kx, db, cs>>

NextThrottle ==
  \/ ThrottleCall
  \/ ThrottleTimerFires
  \/ ThrottleTimePasses

SpecThrottle == InitDedup /\ [][NextThrottle]_vars

\* ---------------------------------------------------- cascade invalidation

\* The lists of related entities an entity can be registered with, in the
\* order of Object.values(entity.relations).
RelationLists == UNION {[1..n -> Entities] : n \in 0..MaxRelations}

\* entityRelations, as addEntityRelation calls leave it: the registered
\* entities and the related entities of each.
RelationGraphs ==
  {g \in [registered : SUBSET Entities, relations : [Entities -> RelationLists]] :
     \A e \in Entities \ g.registered : g.relations[e] = <<>>}

\* Mutant of relatedEntities: no entity has relations.
relatedEntities_none(c, e) == <<>>

\* this.entityRelations.get(entityKey): the related entities in loop order,
\* none when the entity is not registered
relatedEntities(c, e) ==
  IF e \in c.registered THEN c.relations[e] ELSE <<>>

\* invalidateCascade(queryKey): visited = new Set(), cascadeInvalidate called
invalidateCascade(g, start) ==
  /\ cs.pc = "idle"
  /\ cs' = [cs EXCEPT !.pc = "running", !.registered = g.registered,
                      !.relations = g.relations, !.start = start,
                      !.call = start]
  /\ UNCHANGED <<coreVars, ps, kx, db, th>>

\* cascadeInvalidate(queryKey) is entered: it returns at once for a visited
\* entity; otherwise it marks the entity, invalidates it, and starts the
\* loop over its related entities.
cascadeInvalidate ==
  /\ cs.pc = "running"
  /\ cs.call # NoEntity
  /\ cs' = IF cs.call \in cs.visited
             THEN [cs EXCEPT !.call = NoEntity]
             ELSE [cs EXCEPT !.call = NoEntity,
                             !.visited = @ \cup {cs.call},
                             !.count[cs.call] = @ + 1,
                             !.stack = Append(@, relatedEntities(cs, cs.call))]
  /\ UNCHANGED <<coreVars, ps, kx, db, th>>

\* The loop of the innermost cascadeInvalidate goes on: the next related
\* entity is passed to a recursive call, or the loop ends and the call
\* returns.
cascadeLoop ==
  /\ cs.pc = "running"
  /\ cs.call = NoEntity
  /\ cs.stack # <<>>
  /\ LET top == cs.stack[Len(cs.stack)]
         below == SubSeq(cs.stack, 1, Len(cs.stack) - 1)
     IN  cs' = IF top = <<>>
                 THEN [cs EXCEPT !.stack = below]
                 ELSE [cs EXCEPT !.stack = Append(below, Tail(top)),
                                 !.call = Head(top)]
  /\ UNCHANGED <<coreVars, ps, kx, db, th>>

\* The outermost cascadeInvalidate has returned: invalidateCascade resolves.
cascadeDone ==
  /\ cs.pc = "running"
  /\ cs.call = NoEntity
  /\ cs.stack = <<>>
  /\ cs' = [cs EXCEPT !.pc = "done"]
  /\ UNCHANGED <<coreVars, ps, kx, db, th>>

NextCascade ==
  \/ \E g \in RelationGraphs, start \in Entities : invalidateCascade(g, start)
  \/ cascadeInvalidate
  \/ cascadeLoop
  \/ cascadeDone

\* Every await of the recursion completes: a cascade under way goes on.
FairCascade == WF_vars(cascadeInvalidate \/ cascadeLoop \/ cascadeDone)

SpecCascade == InitDedup /\ [][NextCascade]_vars /\ FairCascade

\* ------------------------------------------------------ retryableRequest

\* The retryDelay option; 1000 by default.
RetryDelays == {0, 1000}

\* options.retryCondition, by default () => true
retryCondition(error) == TRUE

\* Mutant of retryBackoff: the delay shrinks with the attempt.
retryBackoff_shrinking(retryDelay, attempt) == retryDelay \div (2 ^ attempt)

\* retryDelay * Math.pow(2, attempt)
retryBackoff(retryDelay, attempt) == retryDelay * (2 ^ attempt)

\* Mutant of retryGivesUp: the last attempt is not recognised.
retryGivesUp_never(attempt, maxRetries, error) == ~retryCondition(error)

\* line 603: attempt === maxRetries || !retryCondition(error)
retryGivesUp(attempt, maxRetries, error) ==
  attempt = maxRetries \/ ~retryCondition(error)

\* The api request and retryableRequest share no state: one of them is under
\* way at a time.
ApiQuiet == \A p \in Procs : procs[p].pc \in {"idle", "returned"}

\* retryableRequest(requestFn, options): requestFn will fail `failures` times
\* and then succeed; the loop starts at attempt 0.
retryableRequestCall ==
  /\ rr.pc = "idle"
  /\ ApiQuiet
  /\ \E maxRetries \in 0..MaxRetries, retryDelay \in RetryDelays,
        failures \in 0..MaxFailures :
       rr' = [IdleRetry EXCEPT !.pc = "attempt", !.maxRetries = maxRetries,
                               !.retryDelay = retryDelay, !.failures = failures]
  /\ UNCHANGED <<authVars, pendingRequests, ops, callers, clock, lastSweep, cancelled, hx, sc, utilVars>>

\* The attempt, run through deduplicate under a key of its own, settles: the
\* result is returned, or the catch rethrows or schedules the next attempt.
retryAttemptSettles ==
  /\ rr.pc = "attempt"
  /\ LET n == rr.nAttempts + 1
         r1 == [rr EXCEPT !.nAttempts = n]
     IN  rr' = IF n > rr.failures
                 THEN [r1 EXCEPT !.pc = "done", !.res = "ok"]
                 ELSE IF retryGivesUp(rr.attempt, rr.maxRetries, n)
                   THEN [r1 EXCEPT !.pc = "done", !.res = "fail", !.lastError = n]
                   ELSE [r1 EXCEPT !.pc = "backoff", !.lastError = n,
                                   !.delay = retryBackoff(rr.retryDelay, rr.attempt)]
  /\ UNCHANGED <<authVars, pendingRequests, ops, callers, clock, lastSweep, cancelled, hx, sc, utilVars>>

\* The setTimeout of the backoff fires: the loop goes on with attempt + 1.
retryBackoffElapsed ==
  /\ rr.pc = "backoff"
  /\ rr' = [rr EXCEPT !.pc = "attempt", !.attempt = @ + 1]
  /\ UNCHANGED <<authVars, pendingRequests, ops, callers, clock, lastSweep, cancelled, hx, sc, utilVars>>

\* The caller of retryableRequest has its result or its rejection.
retryReturns ==
  /\ rr.pc = "done"
  /\ rr' = IdleRetry
  /\ UNCHANGED <<authVars, pendingRequests, ops, callers, clock, lastSweep, cancelled, hx, sc, utilVars>>

\* One api request at a time, answered with any of the responses.
StartOneRequest ==
  /\ rr.pc = "idle"
  /\ ApiQuiet
  /\ \E p \in Procs :
       /\ procs[p].pc \in {"idle", "returned"}
       /\ \A q \in Procs : q < p => procs[q].pc = "returned"
       /\ LET c == beforeRequest([Ctx(p) EXCEPT !.me = [IdleProc EXCEPT !.kind = "request"]])
          IN  Commit(c) /\ procs' = [procs EXCEPT ![p] = c.me]
  /\ UNCHANGED <<now, dedupVars>>

ResponseAny(p) == ResponseFrom(p, AllResponses)

NextRetry ==
  \/ StartOneRequest
  \/ \E p \in Procs : ResumePreflight(p)
  \/ \E p \in Procs : ResumeRetry(p)
  \/ \E p \in Procs : ResponseAny(p)
  \/ \E p \in Procs : RetryDelayElapsed(p)
  \/ \E p \in Procs : Return(p)
  \/ \E t \in Tickets : RenewalSucceeds(t)
  \/ \E t \in Tickets : RenewalFails(t)
  \/ retryableRequestCall
  \/ retryAttemptSettles
  \/ retryBackoffElapsed
  \/ retryReturns

SpecRetry == Init /\ [][NextRetry]_vars

\* ---------------------------------------------------------------- claims

\* C1: refreshAccessToken calls that are pending together share one renewal
\* network call (one performTokenRefresh promise, whose call is in flight), and
\* once it settles every caller of the cohort has the same outcome: the same
\* new access token, or a rejection.
C1_SingleFlightCohort ==
  \A p, q \in Procs :
    /\ (Awaiting(procs[p]) /\ ~Ready(p) /\ Awaiting(procs[q]) /\ ~Ready(q))
         => /\ procs[p].tk = procs[q].tk
            /\ procs[p].tk \in tickets
    /\ (Ready(p) /\ Ready(q) /\ procs[p].tk = procs[q].tk)
         => procs[p].got = procs[q].got

\* C1 witness: the creating caller and a joiner of one renewal both hold its
\* new access token.
C1_Witness ==
  \E p, q \in Procs :
    /\ p # q /\ Ready(p) /\ Ready(q)
    /\ procs[p].owner /\ ~procs[q].owner
    /\ procs[p].got.st = "ok" /\ procs[q].got.st = "ok"

\* C2: at most one renewal network call is in flight, it is the one
\* refreshPromise names, and isRefreshing is true exactly when refreshPromise
\* is non-null.
C2_OneRenewalTicket ==
  /\ Cardinality(tickets) <= 1
  /\ tm.isRefreshing <=> tm.refreshPromise # 0
  /\ tickets = IF tm.isRefreshing THEN {tm.refreshPromise} ELSE {}

\* C2 witness: a renewal is in flight with two hooks of different requests
\* awaiting it after a logout.
C2_Witness ==
  /\ tm.isRefreshing
  /\ ~auth.isAuthenticated
  /\ \E p, q \in Procs :
       /\ p # q
       /\ procs[p].pc = "preflight" /\ procs[q].pc = "retryRefresh"
       /\ ~Ready(p) /\ ~Ready(q)

\* An operation started through deduplicate that is still running and has not
\* been signalled to abort.
LiveOp(o) == ops[o].st = "running" /\ ~ops[o].aborted

\* C3: while the first caller of a key is still waiting for the operation it
\* started, and no cancel or sweep has run since, every deduplicate call with
\* that key starts no operation and receives the promise of that operation -
\* requestFn runs once for the cohort - and the callers that hold one promise
\* receive one result.
C3_Steps ==
  \A c, f \in Callers :
    ( /\ callers[f].pc = "waiting" /\ callers[f].first
      /\ ops[callers[f].op].st = "running"
      /\ ~ops[callers[f].op].disturbed
      /\ callers[c].pc = "idle" /\ callers'[c].pc = "waiting"
      /\ callers'[c].key = callers[f].key )
      => /\ callers'[c].op = callers[f].op
         /\ ~callers'[c].first
         /\ ops' = ops

C3_OneRunPerCohort == [][C3_Steps]_vars

\* C4: there is at most one in-flight entry per key, and per key at most one
\* operation started through deduplicate that is still running and has not
\* been signalled to abort.
C4_OneLiveOpPerKey ==
  \A k \in Keys :
    /\ Cardinality(mapGet(pendingRequests, k)) <= 1
    /\ Cardinality({o \in OpIds : LiveOp(o) /\ ops[o].key = k}) <= 1

\* C10: when callers are about to observe a resolved renewal, the new access and
\* refresh tokens and a new expiry are already stored; when they are about to
\* observe a rejected one, both tokens and the expiry are cleared from memory
\* and storage.
C10_StoredBeforeObserved ==
  \A p \in Procs :
    Ready(p) =>
      IF procs[p].got.st = "ok"
        THEN /\ tm.accessToken = procs[p].got.val
             /\ tm.refreshToken = procs[p].got.val
             /\ storage = [accessToken |-> Item(procs[p].got.val),
                           refreshToken |-> Item(procs[p].got.val),
                           tokenExpiry |-> Item(now + TokenLifetime),
                           fails |-> FALSE]
        ELSE /\ procs[p].got.st = "fail"
             /\ tm.accessToken = NoToken
             /\ tm.refreshToken = NoToken
             /\ storage = EmptyStorage

\* C10 witness: a joiner is about to observe the rejection of a renewal that
\* was started while credentials were stored.
C10_Witness ==
  \E p, q \in Procs :
    /\ p # q /\ Ready(p) /\ Ready(q)
    /\ procs[p].got.st = "fail" /\ procs[q].got.st = "fail"

\* The step is one of caller p.
Moves(p) == procs'[p] # procs[p]

\* C5, the steps: after a first 401 with a refresh token at hand, beforeRetry
\* awaits one renewal; when that renewal succeeds the request is dispatched
\* at once, carrying the new access token, with no further renewal and no
\* session invalidation.
C5_Steps ==
  \A p \in Procs :
    /\ ( /\ procs[p].pc = "delay" /\ procs[p].retryCount = 1
         /\ procs[p].err = HttpError(UNAUTHORIZED)
         /\ getRefreshToken(Ctx(p)) # NoToken
         /\ Moves(p) )
         => /\ procs'[p].pc = "retryRefresh"
            /\ procs'[p].nRenew = procs[p].nRenew + 1
            /\ procs'[p].nFetch = procs[p].nFetch
            /\ tickets' = {procs'[p].tk}
    /\ ( /\ procs[p].pc = "retryRefresh" /\ Ready(p)
         /\ procs[p].got.st = "ok"
         /\ Moves(p) )
         => /\ procs'[p].pc = "net"
            /\ procs'[p].header = procs[p].got.val
            /\ procs'[p].nFetch = procs[p].nFetch + 1
            /\ procs'[p].nRenew = procs[p].nRenew
            /\ procs'[p].nUnauth = 0

\* C5, the result: a call that got 401, renewed in beforeRetry and then
\* succeeded, with no pre-flight renewal (its credentials were not expiring
\* soon), has made 3 network calls - 2 dispatches and 1 renewal - and has not
\* invalidated the session.
C5_Result ==
  \A p \in Procs :
    ( /\ procs[p].pc = "done" /\ procs[p].res = "ok"
      /\ procs[p].retryCount = 1 /\ procs[p].nRetryRenew = 1
      /\ procs[p].nRenew = procs[p].nRetryRenew )
      => /\ procs[p].nFetch + procs[p].nRenew = 3
         /\ procs[p].nFetch = 2
         /\ procs[p].nUnauth = 0 /\ procs[p].nHandle = 0

\* C5: a 401 with credentials not expiring soon triggers one renewal at the
\* first retry; after a successful renewal the request is reattempted once with
\* the new access token, and when that reattempt succeeds the call returns after
\* exactly 3 network calls and without session invalidation.
C5_RenewOnceThenRetry == [][C5_Steps]_vars /\ []C5_Result

\* C5 witness: such a call has returned its result.
C5_Witness ==
  \E p \in Procs :
    /\ procs[p].pc = "done" /\ procs[p].res = "ok"
    /\ procs[p].retryCount = 1 /\ procs[p].nRetryRenew = 1
    /\ procs[p].nRenew = 1 /\ procs[p].nFetch = 2
    /\ procs[p].header = tm.accessToken /\ procs[p].header # NoToken

C7_OneOutcomePerCall ==
  \A p \in Procs :
    (procs[p].pc = "done" /\ procs[p].res = "fail" /\ procs[p].kind = "request")
      => /\ procs[p].nHandle = 1
         /\ procs[p].nUnauth <= 1

\* C8: when the pre-flight renewal of beforeRequest fails, the request is
\* dispatched with the access token that was current before the renewal
\* attempt in its Authorization header.
C8_Steps ==
  \A p \in Procs :
    ( /\ procs[p].pc = "preflight" /\ Ready(p)
      /\ procs[p].got.st = "fail"
      /\ Moves(p) )
      => /\ procs'[p].pc = "net"
         /\ procs'[p].header = procs[p].stale

C8_StaleTokenAfterFailedPreflight == [][C8_Steps]_vars

\* C9, the steps of a call that enters beforeRequest for its first dispatch:
\* with a recorded expiry less than 5 minutes away and a refresh token present
\* it awaits one renewal, the only one in flight, and is not dispatched before
\* that renewal has settled; with the expiry more than 5 minutes away it is
\* dispatched at once and no renewal is started.
C9_Steps ==
  \A p \in Procs :
    /\ ( /\ procs[p].pc = "idle" /\ Moves(p) /\ procs'[p].kind = "request"
         /\ storage.tokenExpiry # Absent )
         => LET expiry == storage.tokenExpiry[1]
            IN  /\ (expiry - now < ExpiryWindow /\ getRefreshToken(Ctx(p)) # NoToken)
                     => /\ procs'[p].pc = "preflight"
                        /\ procs'[p].nRenew = 1 /\ procs'[p].nFetch = 0
                        /\ tickets' = {procs'[p].tk}
                /\ (expiry - now > ExpiryWindow)
                     => /\ procs'[p].pc = "net"
                        /\ procs'[p].nRenew = 0 /\ procs'[p].nFetch = 1
                        /\ tickets' = tickets
    /\ (procs[p].pc = "preflight" /\ Moves(p) /\ procs'[p].pc = "net")
         => /\ Ready(p)
            /\ procs[p].tk \notin tickets
            /\ procs'[p].nRenew = procs[p].nRenew

\* C9: a request issued with the expiry less than 5 minutes away and a refresh
\* token present triggers exactly one renewal attempt, which completes before
\* the request is dispatched; with the expiry more than 5 minutes away no
\* pre-flight renewal is attempted.
C9_PreflightRenewal == [][C9_Steps]_vars

\* C9 witness: a request whose stored expiry is 3 minutes away waits for the
\* renewal it started before its first dispatch.
C9_Witness ==
  \E p \in Procs :
    /\ procs[p].pc = "preflight" /\ ~Ready(p) /\ procs[p].owner
    /\ procs[p].nFetch = 0 /\ procs[p].nRenew = 1
    /\ storage.tokenExpiry # Absent
    /\ storage.tokenExpiry[1] - now = 3

\* C11, the steps: the step in which a renewal settles, by success or by
\* failure, leaves isRefreshing false and refreshPromise null; and a direct
\* refreshAccessToken call made with no renewal in flight and a refresh token
\* present creates a promise of its own, whose network call is then the one
\* in flight.
C11_Steps ==
  /\ (\E t \in tickets : t \notin tickets')
       => /\ ~tm'.isRefreshing
          /\ tm'.refreshPromise = 0
          /\ tickets' = {}
  /\ \A p \in Procs :
       ( /\ procs[p].pc = "idle" /\ Moves(p) /\ procs'[p].kind = "refresh"
         /\ tickets = {}
         /\ getRefreshToken(Ctx(p)) # NoToken )
         => /\ procs'[p].pc = "directWait" /\ procs'[p].owner
            /\ tickets' = {procs'[p].tk}
            /\ tm'.isRefreshing /\ tm'.refreshPromise = procs'[p].tk

\* C11: once a renewal has settled the single-flight slot is empty, and the
\* next refreshAccessToken call with a refresh token present starts a new
\* renewal network call.
C11_SlotFreedOnSettle == [][C11_Steps]_vars

\* C11 witness: a request has been through a renewal that settled, and a
\* later direct refreshAccessToken call awaits a renewal it created.
C11_Witness ==
  \E p, q \in Procs :
    /\ p # q
    /\ procs[p].kind = "request" /\ procs[p].nRetryRenew = 1
    /\ procs[p].pc = "net"
    /\ procs[q].kind = "refresh" /\ procs[q].pc = "directWait"
    /\ procs[q].owner /\ ~Ready(q) /\ tickets = {procs[q].tk}

\* C12, the step of a direct refreshAccessToken call made with no renewal in
\* flight and no refresh token in memory or in storage: the call is over at
\* once, rejected with "No refresh token available"; no renewal network call
\* is made, no promise is created, and the TokenManager fields and the stored
\* items are as before.
C12_Steps ==
  \A p \in Procs :
    ( /\ procs[p].pc = "idle" /\ Moves(p) /\ procs'[p].kind = "refresh"
      /\ ~tm.isRefreshing /\ tickets = {}
      /\ tm.refreshToken = NoToken /\ storage.refreshToken = Absent )
      => /\ procs'[p].pc = "done" /\ procs'[p].res = "fail"
         /\ procs'[p].got.rej = NoRefreshTokenError
         /\ procs'[p].nRenew = 0
         /\ tickets' = {}
         /\ tm' = tm
         /\ storage' = storage

\* C12: with no renewal in flight and no refresh token present,
\* refreshAccessToken fails with the no-refresh-credential failure, makes no
\* network call, creates no renewal ticket and leaves the stored credentials
\* and the expiry unchanged.
C12_NoRefreshCredential == [][C12_Steps]_vars

\* C12 witness: such a call has been rejected while an access token and its
\* expiry, stored without a refresh token, are still in place.
C12_Witness ==
  \E p \in Procs :
    /\ procs[p].kind = "refresh" /\ procs[p].pc = "done"
    /\ procs[p].got.rej = NoRefreshTokenError
    /\ storage.accessToken # Absent /\ storage.tokenExpiry # Absent
    /\ storage.refreshToken = Absent /\ tickets = {}

\* A caller holds a rejection of refreshAccessToken.
Rejected(pr) == pr.got.st \in {"fail", "threw"}

\* C13 as stated: every rejection surfaced by refreshAccessToken is the one
\* renewal-failed error and carries the underlying cause, and the callers that
\* await one renewal hold the same rejection.
C13_SingleWrappingRejection ==
  /\ \A p \in Procs :
       Rejected(procs[p])
         => /\ procs[p].got.rej.k = "Token refresh failed"
            /\ procs[p].got.rej.cause = procs[p].got.cause
            /\ procs[p].got.rej.cause # NoError
  /\ \A p, q \in Procs :
       (Ready(p) /\ Ready(q) /\ procs[p].tk = procs[q].tk)
         => procs[p].got.rej = procs[q].got.rej

\* C13 amended: a rejection of a renewal whose network call was made is the
\* Error "Token refresh failed", the same whatever the call failed with and
\* without its cause (the cause is only logged); a call made with no refresh
\* token is rejected with the Error "No refresh token available"; the callers
\* that await one renewal hold the same rejection.
C13_RejectionKinds ==
  /\ \A p \in Procs :
       /\ procs[p].got.st = "fail"
            => /\ procs[p].got.rej = [k |-> "Token refresh failed", cause |-> NoError]
               /\ procs[p].got.cause \in RenewalErrors
       /\ procs[p].got.st = "threw"
            => /\ procs[p].got.rej = NoRefreshTokenError
               /\ procs[p].got.cause = NoError
       /\ procs[p].got.st \in {"none", "ok"}
            => procs[p].got.rej = NoRejection
  /\ \A p, q \in Procs :
       (Ready(p) /\ Ready(q) /\ procs[p].tk = procs[q].tk)
         => procs[p].got.rej = procs[q].got.rej

\* C13 witness: the creating caller and a joiner hold the rejection of a
\* renewal whose network call failed at the transport.
C13_Witness ==
  \E p, q \in Procs :
    /\ p # q /\ Ready(p) /\ Ready(q) /\ procs[p].tk = procs[q].tk
    /\ procs[p].owner /\ ~procs[q].owner
    /\ procs[p].got.st = "fail" /\ procs[q].got.st = "fail"
    /\ procs[p].got.cause = FetchFailed

\* A forced sign-out has been carried out: the credentials are cleared and the
\* auth store is logged out.
SignedOut ==
  /\ tm.accessToken = NoToken /\ tm.refreshToken = NoToken
  /\ storage = EmptyStorage
  /\ ~auth.isAuthenticated

C14_Steps ==
  \A p \in Procs :
    /\ (procs[p].pc = "delay" /\ procs'[p].pc = "retryRefresh")
         => /\ procs[p].retryCount = 1
            /\ procs[p].err = HttpError(UNAUTHORIZED)
            /\ procs[p].nRetryRenew = 0
    /\ ( /\ procs[p].pc = "retryRefresh" /\ Ready(p)
         /\ procs[p].got.st = "fail" /\ Moves(p) )
         => /\ procs'[p].pc = "done" /\ procs'[p].res = "fail"
            /\ procs'[p].surfaced = HttpError(UNAUTHORIZED)
            /\ procs'[p].nFetch = procs[p].nFetch
            /\ procs'[p].nUnauth >= 1
            /\ SignedOut'
    /\ ( /\ procs[p].pc = "delay" /\ procs[p].nRetryRenew = 1
         /\ procs[p].retryCount = 2
         /\ procs[p].err = HttpError(UNAUTHORIZED) /\ Moves(p) )
         => /\ procs'[p].pc \in {"net", "preflight"}
            /\ procs'[p].nRetryRenew = 1
            /\ procs'[p].nUnauth = 0

\* C14 amended, the results: a request renews in beforeRetry at most once and
\* is dispatched at most 3 times; when it surfaces a 401 after a successful
\* renewal, that 401 is its third failure, and the forced sign-out has been
\* carried out unless the call is silent.
C14_Result ==
  \A p \in Procs :
    /\ procs[p].nRetryRenew <= 1
    /\ procs[p].nFetch <= RetryLimit + 1
    /\ procs[p].pc = "retryRefresh" => procs[p].retryCount = 1
    /\ ( /\ procs[p].pc = "done" /\ procs[p].res = "fail"
         /\ procs[p].nRetryRenew = 1
         /\ procs[p].surfaced = HttpError(UNAUTHORIZED) )
         => /\ procs[p].retryCount = RetryLimit + 1
            /\ ~procs[p].silent => (procs[p].nUnauth = 1 /\ SignedOut)
            /\ procs[p].silent => procs[p].nUnauth = 0

SpecTransient(error) ==
  \/ classify(error).type \in {"NETWORK_ERROR", "SERVER_ERROR"}
  \/ error = TimeoutError

\* The failures the api client retries without a renewal: a failed fetch and
\* the server errors among retry.statusCodes.
ClientTransient(error) ==
  \/ error \in {FetchFailed, NetworkRequestFailed}
  \/ /\ error.k = "http" /\ classify(error).type = "SERVER_ERROR"
     /\ error.status \in RetryStatusCodes

\* C15, retryableRequest: at most maxRetries + 1 attempts are made; a call
\* whose requestFn fails N times and then succeeds returns the success when
\* N <= maxRetries and rejects with the last failure made otherwise.
C15_RetryableResult ==
  /\ rr.nAttempts <= rr.maxRetries + 1
  /\ rr.pc = "done"
       => IF rr.failures <= rr.maxRetries
            THEN rr.res = "ok" /\ rr.nAttempts = rr.failures + 1
            ELSE /\ rr.res = "fail" /\ rr.nAttempts = rr.maxRetries + 1
                 /\ rr.lastError = rr.nAttempts

\* C15, the delays: the delay before an attempt is never shorter than the
\* delay before the attempt it follows, in retryableRequest and in the api
\* client.
C15_DelaySteps ==
  /\ (rr.pc = "attempt" /\ rr'.pc = "backoff" /\ rr.delay >= 0)
       => rr'.delay >= rr.delay
  /\ \A p \in Procs :
       (procs[p].pc = "net" /\ procs'[p].pc = "delay" /\ procs[p].retryCount >= 1)
         => kyRetryDelay(procs'[p].retryCount) >= kyRetryDelay(procs[p].retryCount)

\* C15, the api client with the failures kinds: a request is dispatched at most
\* limit + 1 times; it returns a success after at most limit failures; and a
\* failure of a kind in kinds is surfaced only as the failure of dispatch
\* limit + 1.
ApiRetryResult(p, transient) ==
  /\ procs[p].nFetch <= RetryLimit + 1
  /\ (procs[p].pc = "done" /\ procs[p].res = "ok")
       => /\ procs[p].nFetch = procs[p].retryCount + 1
          /\ procs[p].retryCount <= RetryLimit
  /\ (procs[p].pc = "done" /\ procs[p].res = "fail" /\ transient)
       => /\ procs[p].retryCount = RetryLimit + 1
          /\ procs[p].nFetch = RetryLimit + 1
          /\ procs[p].surfaced = procs[p].err

C15_NotRetriedSteps ==
  \A p \in Procs :
    ( /\ procs[p].pc = "net" /\ Moves(p)
      /\ procs'[p].err \in {TimeoutError, HttpError(NOT_IMPLEMENTED)} )
      => /\ procs'[p].pc = "done" /\ procs'[p].res = "fail"
         /\ procs'[p].surfaced = procs'[p].err
         /\ procs'[p].nFetch = procs[p].nFetch

DispatchFails(p) ==
  /\ procs[p].pc = "net" /\ Moves(p)
  /\ procs'[p].retryCount = procs[p].retryCount + 1

\* The failure of the dispatch is handled once and surfaced to the caller, and
\* the request is not dispatched again.
SurfacedAtOnce(p) ==
  /\ procs'[p].pc = "done" /\ procs'[p].res = "fail"
  /\ procs'[p].surfaced = procs'[p].err
  /\ procs'[p].nHandle = procs[p].nHandle + 1
  /\ procs'[p].nFetch = procs[p].nFetch

\* The kinds the specification excludes from retry.
SpecFinalKinds ==
  {"AUTHORIZATION_ERROR", "NOT_FOUND_ERROR", "CONFLICT_ERROR",
   "VALIDATION_ERROR", "UNKNOWN_ERROR"}

C17_Steps ==
  /\ \A c \in Callers :
       ( /\ callers[c].pc = "idle" /\ callers'[c].pc = "waiting"
         /\ mapGet(pendingRequests, callers'[c].key) = {} )
         => /\ ops[callers'[c].op].st = "unused"
            /\ ops'[callers'[c].op].st = "running"
            /\ mapGet(pendingRequests', callers'[c].key) =
                 {[key |-> callers'[c].key, op |-> callers'[c].op,
                   timestamp |-> clock]}
            /\ getStatus(pendingRequests').pendingCount =
                 getStatus(pendingRequests).pendingCount + 1
  /\ \A o \in OpIds :
       (ops[o].st = "running" /\ ops'[o].st = "settled")
         => /\ \A e \in pendingRequests' : e.op # o
            /\ getStatus(pendingRequests').pendingCount <=
                 Cardinality({e \in pendingRequests : e.op # o})

\* C17: an in-flight entry is created by a deduplicate call for a key with no
\* entry and is gone once its operation has settled: every entry of the registry
\* belongs to an operation that has not settled, and pendingCount counts only
\* such operations.
C17_EntryLifetime ==
  /\ [][C17_Steps]_vars
  /\ [](/\ \A e \in pendingRequests : ops[e.op].st = "running"
        /\ getStatus(pendingRequests).pendingCount =
             Cardinality({o \in OpIds :
                            /\ ops[o].st = "running"
                            /\ \E e \in pendingRequests : e.op = o}))

\* C17 witness: an operation has settled and its caller has the result, while
\* the entry of an operation under another key is still registered and counted.
C17_Witness ==
  \E o \in OpIds, c \in Callers :
    /\ ops[o].st = "settled"
    /\ callers[c].pc = "got" /\ callers[c].op = o
    /\ \A e \in pendingRequests : e.op # o
    /\ \E e \in pendingRequests : e.key # ops[o].key
    /\ getStatus(pendingRequests).pendingCount = 1

\* C18, a call of cancelRequest(key): it returns true exactly when an entry
\* for the key exists; it then signals the controller of that entry and removes
\* the entry, and otherwise changes nothing; the entries under the other keys
\* stay as they are and no other operation is signalled.
C18_Steps ==
  \A key \in Keys :
    cancelRequest(key) =>
      LET request == mapGet(pendingRequests, key)
      IN  /\ cancelled'.key = key
          /\ cancelled'.ret <=> request # {}
          /\ cancelled'.ret
               => /\ \A e \in request : ops'[e.op].aborted
                  /\ mapGet(pendingRequests', key) = {}
          /\ ~cancelled'.ret
               => /\ pendingRequests' = pendingRequests
                  /\ \A o \in OpIds : ops'[o].aborted = ops[o].aborted
          /\ \A other \in Keys \ {key} :
               mapGet(pendingRequests', other) = mapGet(pendingRequests, other)
          /\ \A o \in OpIds :
               (\A e \in request : e.op # o)
                 => ops'[o].aborted = ops[o].aborted

\* C18: cancelRequest(key) returns true exactly when an entry for the key
\* exists, then aborts and removes that entry, and in both cases leaves the
\* entries under other keys unchanged and not aborted.
C18_CancelOneKey == [][C18_Steps]_vars

\* C18 witness: cancelRequest has returned true, the entry of its key is gone
\* and its operation signalled, while the entry under another key is still
\* registered and its operation not signalled.
C18_Witness ==
  /\ cancelled.ret
  /\ mapGet(pendingRequests, cancelled.key) = {}
  /\ \E o \in OpIds :
       ops[o].key = cancelled.key /\ ops[o].st = "running" /\ ops[o].aborted
  /\ \E e \in pendingRequests :
       e.key # cancelled.key /\ LiveOp(e.op)

\* C19, the steps: cancelAllRequests signals the controller of every entry and
\* empties the registry; a deduplicate call on the empty registry for a key
\* whose cancelled operation is still running starts a new operation and
\* registers it.
C19_Steps ==
  /\ cancelAllRequests
       => /\ \A e \in pendingRequests : ops'[e.op].aborted
          /\ pendingRequests' = {}
          /\ getStatus(pendingRequests').pendingCount = 0
  /\ \A c \in Callers :
       ( /\ callers[c].pc = "idle" /\ callers'[c].pc = "waiting"
         /\ pendingRequests = {}
         /\ \E o \in OpIds :
              /\ ops[o].key = callers'[c].key
              /\ ops[o].st = "running" /\ ops[o].aborted )
         => /\ callers'[c].first
            /\ ops[callers'[c].op].st = "unused"
            /\ ops'[callers'[c].op].st = "running"
            /\ ~ops'[callers'[c].op].aborted
            /\ \E e \in pendingRequests' :
                 e.key = callers'[c].key /\ e.op = callers'[c].op

\* C19: after cancelAllRequests every entry's controller has been signalled
\* and the registry is empty, and a deduplicate call afterwards for a key that
\* was registered starts a new operation.
C19_CancelAll == [][C19_Steps]_vars

\* C19 witness: with no cancelRequest call and no sweep so far, an operation
\* that was signalled is still running while a new operation runs under its
\* key for a later deduplicate call.
C19_Witness ==
  /\ cancelled = NoCancel /\ lastSweep = 0
  /\ \E o, n \in OpIds :
       /\ ops[o].st = "running" /\ ops[o].aborted
       /\ ops[n].key = ops[o].key /\ LiveOp(n)
       /\ \E e \in pendingRequests : e.op = n
       /\ \E c \in Callers :
            callers[c].pc = "waiting" /\ callers[c].op = n /\ callers[c].first

\* C20, a run of the periodic sweep: every entry older than PENDING_TIMEOUT is
\* aborted and removed, every other entry stays registered with its operation
\* as it was, and no entry is added.
C20_Steps ==
  cleanupExpiredRequests
    => /\ \A e \in pendingRequests :
            IF clock - e.timestamp > PENDING_TIMEOUT
              THEN e \notin pendingRequests' /\ ops'[e.op].aborted
              ELSE /\ e \in pendingRequests'
                   /\ ops'[e.op].aborted = ops[e.op].aborted
       /\ pendingRequests' \subseteq pendingRequests

\* C20: on each periodic sweep every entry older than 30 s is aborted and
\* removed, and every entry that is not older is left in place and not aborted.
C20_SweepExpired == [][C20_Steps]_vars

\* C20 witness: the sweep has just run; an entry exactly PENDING_TIMEOUT old is
\* still registered and its operation not signalled, while an operation whose
\* entry was older is signalled and no longer registered.
C20_Witness ==
  /\ lastSweep = clock /\ clock = CLEANUP_INTERVAL
  /\ cancelled = NoCancel
  /\ \E e \in pendingRequests :
       clock - e.timestamp = PENDING_TIMEOUT /\ LiveOp(e.op)
  /\ \E o \in OpIds :
       /\ ops[o].st = "running" /\ ops[o].aborted
       /\ \A e \in pendingRequests : e.op # o

\* Caller f awaits an operation that runs under the key in the registry's care
\* and that no cancellation has touched.
AwaitsShared(f, key) ==
  /\ callers[f].pc = "waiting" /\ callers[f].key = key
  /\ ops[callers[f].op].st = "running"
  /\ ~ops[callers[f].op].direct
  /\ ~ops[callers[f].op].disturbed

\* The call of c starts an operation of its own, which no other call can join.
OwnOperation(c) ==
  /\ callers'[c].first
  /\ ops[callers'[c].op].st = "unused"
  /\ ops'[callers'[c].op].st = "running"
  /\ pendingRequests' = pendingRequests

\* C21, the calls that are not merged: a get with enabled = false, and a post,
\* put, patch or delete without enabled = true, run an operation of their own.
C21_OwnSteps ==
  \A c \in Callers, url \in Urls :
    /\ apiUtils_get(c, url, "disabled") => OwnOperation(c)
    /\ \A d \in {"absent", "disabled"} :
         /\ apiUtils_delete(c, url, d) => OwnOperation(c)
         /\ \A m \in MutatingMethods, data \in Bodies :
              apiUtils_mutate(c, m, url, data, d) => OwnOperation(c)

\* C21, the calls that are merged: a get without a deduplication option, and a
\* mutating call with enabled = true, made while another call awaits the
\* operation of the same request, share that operation.
C21_SharedSteps ==
  \A c, f \in Callers, url \in Urls :
    /\ ( /\ apiUtils_get(c, url, "absent")
         /\ AwaitsShared(f, createRequestKey(url, "GET", NoData)) )
         => callers'[c].op = callers[f].op
    /\ ( /\ apiUtils_delete(c, url, "enabled")
         /\ AwaitsShared(f, createRequestKey(url, "DELETE", NoData)) )
         => callers'[c].op = callers[f].op
    /\ \A m \in MutatingMethods, data \in Bodies :
         ( /\ apiUtils_mutate(c, m, url, data, "enabled")
           /\ AwaitsShared(f, createRequestKey(url, m, data)) )
           => callers'[c].op = callers[f].op

\* C21: two concurrent apiUtils.get calls for one url with no deduplication
\* option share one operation; concurrent post, put, patch or delete calls for
\* one url and body each run their own unless the caller passes enabled = true;
\* and a get with enabled = false is not merged.
C21_DedupDefaults == [][C21_OwnSteps /\ C21_SharedSteps]_vars

\* C22: classify is total and never raises: whatever it is given - an HTTP
\* error of any status, an Error, a string, null or undefined, an object of
\* another shape, an object whose response is null or undefined - it returns
\* a structured error with one member of the taxonomy.
C22_ClassifyTotal ==
  hx.pc = "classified"
    => /\ ~hx.structured.raised
       /\ hx.structured.type \in ErrorTypes

\* The kinds the decision table names for single statuses.
TableKind(status) ==
  CASE status = 401 -> "AUTHENTICATION_ERROR"
    [] status = 403 -> "AUTHORIZATION_ERROR"
    [] status = 404 -> "NOT_FOUND_ERROR"
    [] status = 409 -> "CONFLICT_ERROR"
    [] status = 422 -> "VALIDATION_ERROR"
    [] status = 500 -> "SERVER_ERROR"
    [] OTHER -> "none"

\* classify has returned for an HTTP error.
ClassifiedHttp == hx.pc = "classified" /\ hx.error.k = "http"

\* C23 as stated: 401, 403, 404, 409, 422 and 500 have their own kinds, every
\* other 4xx is a ValidationError, every other 5xx a ServerError, every status
\* outside 400-599 an UnknownError; the status field is the response status.
C23_DecisionTable ==
  ClassifiedHttp =>
    LET status == hx.error.status
    IN  /\ hx.structured.status = status
        /\ hx.structured.type =
             IF TableKind(status) # "none" THEN TableKind(status)
             ELSE IF status \in 400..499 THEN "VALIDATION_ERROR"
             ELSE IF status \in 500..599 THEN "SERVER_ERROR"
             ELSE "UNKNOWN_ERROR"

\* C23 amended: as stated, except that a status of 600 or more is a
\* ServerError like every 5xx; the statuses below 400 are the UnknownErrors.
C23_DecisionTableNoUpperBound ==
  ClassifiedHttp =>
    LET status == hx.error.status
    IN  /\ hx.structured.status = status
        /\ hx.structured.type =
             IF TableKind(status) # "none" THEN TableKind(status)
             ELSE IF status \in 400..499 THEN "VALIDATION_ERROR"
             ELSE IF status < 400 THEN "UNKNOWN_ERROR"
             ELSE "SERVER_ERROR"

\* C23 witness: classify has returned a ConflictError for a 409.
C23_Witness ==
  /\ ClassifiedHttp /\ hx.error.status = CONFLICT
  /\ hx.structured = StructuredError("CONFLICT_ERROR", CONFLICT)

\* The failures of the transport before a response is received: a failed
\* fetch (in a browser, on React Native) and ky's request timeout.
TransportFailures == {FetchFailed, NetworkRequestFailed, TimeoutError}

\* C24: every transport-level failure that occurs before a response is
\* received - an error without a response, such as a failed connection or a
\* request timeout - is classified as NetworkError.
C24_TransportIsNetworkError ==
  (hx.pc = "classified" /\ hx.error \in TransportFailures)
    => hx.structured = StructuredError("NETWORK_ERROR", NoStatus)

\* C25: whenever an apiUtils call fails, the caller receives the original
\* error of the failed request; logging, the custom handler, the toast and the
\* session reset never replace it, not even when a handler itself fails.
C25_OriginalErrorSurfaced ==
  hx.pc = "thrown" => hx.thrown = hx.error

\* handleApiError has handled a failure in this step.
Handled == hx.pc = "idle" /\ hx'.pc = "thrown"

\* The session reset: handleUnauthorizedError has run; no credential is left
\* in memory or in storage and the auth store is signed out.
SessionReset ==
  /\ hx'.nUnauth = 1
  /\ tm'.accessToken = NoToken /\ tm'.refreshToken = NoToken
  /\ storage' = EmptyStorage
  /\ ~auth'.isAuthenticated

\* The credentials and the auth store are as they were.
SessionKept ==
  /\ hx'.nUnauth = 0
  /\ tm' = tm /\ storage' = storage /\ auth' = auth

C27_OperatesFromMemory ==
  (storage.fails /\ sc.prev = "setTokens") =>
    /\ sc.op = "getAccessToken" => sc.tok = sc.access
    /\ (sc.op = "getRefreshToken" /\ sc.refresh # NoToken) => sc.tok = sc.refresh
    /\ sc.op = "isTokenExpired" => (sc.flag <=> sc.at >= sc.expiry)
    /\ sc.op = "isTokenExpiringSoon" =>
         (sc.flag <=> sc.at + ExpiryWindow >= sc.expiry)

\* An expiry is recorded: the tokenExpiry item can be read.
ExpiryRecorded == getSecureItem(Ctx0, "tokenExpiry") # Absent
RecordedExpiry == getSecureItem(Ctx0, "tokenExpiry")[1]

\* C28: isTokenExpired returns true exactly when no expiry is recorded or the
\* time of the call is at or past it, isTokenExpiringSoon exactly when none is
\* recorded or the time of the call plus five minutes is at or past it; so
\* isTokenExpired implies isTokenExpiringSoon in every state.
C28_ExpiryPredicates ==
  /\ sc.op = "isTokenExpired" =>
       (sc.flag <=> (~ExpiryRecorded \/ sc.at >= RecordedExpiry))
  /\ sc.op = "isTokenExpiringSoon" =>
       (sc.flag <=> (~ExpiryRecorded \/ sc.at + ExpiryWindow >= RecordedExpiry))
  /\ isTokenExpired(Ctx0) => isTokenExpiringSoon(Ctx0)

\* C28 witness: isTokenExpired was called at the very minute of the recorded
\* expiry and returned true.
C28_Witness ==
  /\ sc.op = "isTokenExpired" /\ sc.flag
  /\ ExpiryRecorded /\ sc.at = RecordedExpiry /\ sc.at > 0

\* Nothing is held in memory or in storage.
StoreEmpty ==
  /\ tm.accessToken = NoToken /\ tm.refreshToken = NoToken
  /\ storage.accessToken = Absent /\ storage.refreshToken = Absent
  /\ storage.tokenExpiry = Absent

C29_Steps ==
  ClearTokensCall =>
    /\ StoreEmpty'
    /\ getAccessToken(Ctx0') = NoToken /\ getRefreshToken(Ctx0') = NoToken
    /\ isTokenExpired(Ctx0')
    /\ sc.op = "clearTokens" => UNCHANGED <<tm, storage>>

C29_Afterwards ==
  sc.prev = "clearTokens" =>
    /\ sc.op \in {"getAccessToken", "getRefreshToken"} =>
         sc.tok = NoToken /\ StoreEmpty
    /\ sc.op = "isTokenExpired" => sc.flag
    /\ sc.op = "clearTokens" => StoreEmpty

\* C29: clearTokens leaves no access token, refresh token or expiry in memory
\* or storage, whatever was there before; a getAccessToken or getRefreshToken
\* call that follows returns nothing and an isTokenExpired call returns true;
\* a second clearTokens in a row changes nothing.
C29_ClearTokens == [][C29_Steps]_vars /\ []C29_Afterwards

\* C29 witness: after a setTokens call, clearTokens has been called twice in
\* a row.
C29_Witness ==
  /\ sc.op = "clearTokens" /\ sc.prev = "clearTokens"
  /\ sc.access # NoToken /\ StoreEmpty

C30_Steps ==
  \A accessToken \in Tokens, refreshToken \in Tokens \cup {NoToken} :
    SetTokensCall(accessToken, refreshToken) =>
      /\ getAccessToken(Ctx0') = accessToken
      /\ IF refreshToken # NoToken
           THEN getRefreshToken(Ctx0') = refreshToken
           ELSE /\ tm'.refreshToken = tm.refreshToken
                /\ storage'.refreshToken = storage.refreshToken
      /\ getSecureItem(Ctx0', "tokenExpiry") = Item(now + TokenLifetime)
      /\ ~isTokenExpired(Ctx0') /\ ~isTokenExpiringSoon(Ctx0')

\* C30: setTokens(access, refresh?) replaces the access token, replaces the
\* refresh token only when one is supplied and otherwise leaves it as it was,
\* and records the expiry now + 55 minutes, so that right after the call
\* isTokenExpired and isTokenExpiringSoon are both false.
C30_SetTokens == [][C30_Steps]_vars

\* C31: persistence round-trips: after setTokens(a, r) and a restart that
\* keeps the storage, getAccessToken returns a and getRefreshToken returns r,
\* in the plain storage mode and in the mode that encrypts the items.
C31_RoundTrip ==
  ps.pc = "read" => ps.gotAccess = ps.a /\ ps.gotRefresh = ps.r

\* C32: the deduplication key is deterministic and collision-free: two calls
\* with the same method, url, payload and query parameters get the same key,
\* and two calls that differ in one of them get different keys unless a
\* caller supplied an override key.
C32_KeyCollisionFree ==
  kx.pc = "two" =>
    /\ kx.first = kx.second => kx.firstKey = kx.secondKey
    /\ (kx.first # kx.second /\ kx.first.key = NoKey /\ kx.second.key = NoKey)
         => kx.firstKey # kx.secondKey

C33_Steps ==
  \A o \in OpIds, result \in {"ok", "fail"} :
    OpSettles(o, result) =>
      \A e \in pendingRequests : e.op # o => e \in pendingRequests'

\* C33: the settlement of an operation removes only that operation's own
\* registry entry: an entry that a newer operation has registered under the
\* same key, after cancelRequest or the sweep removed the older one, is left
\* in place.
C33_SettlementRemovesOwnEntry == [][C33_Steps]_vars

C34_Steps ==
  \A t \in Tickets :
    (SignedOut /\ (RenewalSucceeds(t) \/ RenewalFails(t))) => SignedOut'

\* C34: once clearTokens or the auth store's logout has emptied the
\* credential store while a renewal is in flight, the completion of that
\* renewal stores no access or refresh token again and does not set the auth
\* store back to authenticated.
C34_ClearedStaysCleared == [][C34_Steps]_vars

\* No request and no renewal is being processed.
Quiescent ==
  /\ tickets = {}
  /\ \A p \in Procs : procs[p].pc \in {"idle", "returned"}

\* C35: in every state where no request or renewal is being processed, an
\* auth store with isAuthenticated = true implies that the token manager
\* holds an access token; a failed renewal that cleared the credentials has
\* been followed by the auth store being signed out.
C35_StoresAgree ==
  (Quiescent /\ auth.isAuthenticated) => getAccessToken(Ctx0) # NoToken

\* C36: every promise returned by a debounced function eventually settles,
\* also that of a call superseded by a later call with the same key before
\* the delay has elapsed, and that of a call whose timer cleanup() clears.
C36_DebouncedSettles ==
  \A n \in CallIds :
    (db.calls[n].st = "waiting") ~> (db.calls[n].st \in {"resolved", "rejected"})

\* Call n was superseded: a later call arrived before its delay had elapsed.
Superseded(n) ==
  \E m \in CallIds :
    /\ m > n /\ db.calls[m].st # "unused"
    /\ db.calls[m].at < db.calls[n].due

\* C37: a search call that is superseded by a newer call before its delay
\* elapses never invokes searchFn; in a series of calls each arriving within
\* the delay of the previous one, searchFn is invoked only for the last.
C37_SupersededNeverSearches ==
  \A n \in CallIds : db.calls[n].invoked => ~Superseded(n)

\* C38: two executions of fn for the same key never start less than limit
\* apart, whenever the calls arrive and whenever at or after their due time
\* the timers fire; a call that arrives while a trailing execution is
\* scheduled is rejected and does not execute fn.
C38_ThrottleSpacing ==
  /\ \A i \in 1..(Len(th.starts) - 1) :
       th.starts[i + 1] - th.starts[i] >= ThrottleLimit
  /\ th.last.scheduled => th.last.branch = "rejected"

\* The entities reachable from es in the graph of the cascade.
RECURSIVE ReachableFrom(_)
ReachableFrom(es) ==
  LET more == es \cup {f \in Entities :
                         \E e \in es \cap cs.registered :
                           \E i \in 1..Len(cs.relations[e]) :
                             cs.relations[e][i] = f}
  IN  IF more = es THEN es ELSE ReachableFrom(more)

\* At the end each reachable entity was invalidated once, no other at all;
\* no entity is ever invalidated twice.
C40_ExactlyOnce ==
  /\ \A e \in Entities : cs.count[e] <= 1
  /\ cs.pc = "done" =>
       \A e \in Entities :
         cs.count[e] = IF e \in ReachableFrom({cs.start}) THEN 1 ELSE 0

\* C40: cascade invalidation terminates for every relation graph, cyclic
\* ones included, and invalidates each entity reachable from the starting
\* entity exactly once and no entity that is not reachable.
C40_CascadeTerminates ==
  /\ []C40_ExactlyOnce
  /\ (cs.pc = "running") ~> (cs.pc = "done")

\* C40 witness: the cascade has ended on a graph with the cycle 1 -> 2 -> 1
\* in which entity 3 is not reachable.
C40_Witness ==
  /\ cs.pc = "done" /\ cs.start = 1
  /\ cs.registered = {1, 2}
  /\ cs.relations[1] = <<2>> /\ cs.relations[2] = <<1>>
  /\ cs.count[1] = 1 /\ cs.count[2] = 1 /\ cs.count[3] = 0

\* ------------------------------------- apiUtils requests, start to outcome
\* Caller p makes one apiUtils.get call, which proc p carries when the call
\* runs its own requestFn.

\* apiUtils.get(url, options): deduplicate(requestKey, requestFn) takes the
\* pending operation of the key or registers a new one; with deduplication
\* disabled requestFn runs under a controller of its own.
apiGet(p) ==
  /\ NextToStart(p)
  /\ \E url \in Urls, d \in DedupOptions : apiUtils_get(p, url, d)

\* requestFn(signal) of a call that runs its own operation: apiClient.get
\* enters ky, which runs beforeRequest.
requestFn(p) ==
  /\ callers[p].pc = "waiting" /\ callers[p].first
  /\ StartRequest(p)

\* The call of requestFn has settled, and with it the operation's promise:
\* every caller that holds the promise gets the outcome.
requestSettles(p) ==
  /\ Settling(p)
  /\ callers[p].pc = "waiting" /\ callers[p].first
  /\ OpSettles(callers[p].op, procs[p].res)

\* The caller that ran requestFn has its outcome.
requestReturns(p) ==
  /\ callers[p].pc # "waiting"
  /\ Return(p)

NextRequests ==
  \/ \E p \in Procs : apiGet(p)
  \/ \E p \in Procs : requestFn(p)
  \/ \E p \in Procs : ResumePreflight(p)
  \/ \E p \in Procs : ResumeRetry(p)
  \/ \E p \in Procs : Response(p)
  \/ \E p \in Procs : RetryDelayElapsed(p)
  \/ \E p \in Procs : requestSettles(p)
  \/ \E p \in Procs : requestReturns(p)
  \/ \E t \in Tickets : RenewalSucceeds(t)
  \/ \E t \in Tickets : RenewalFails(t)

\* Every network call and every renewal call is answered or times out, ky's
\* retry timer fires, and a continuation that can run does run.
FairRequests ==
  /\ \A p \in Procs :
       /\ WF_vars(requestFn(p))
       /\ WF_vars(ResumePreflight(p))
       /\ WF_vars(ResumeRetry(p))
       /\ WF_vars(Response(p))
       /\ WF_vars(RetryDelayElapsed(p))
       /\ WF_vars(requestSettles(p))
       /\ WF_vars(requestReturns(p))
  /\ \A t \in Tickets : WF_vars(RenewalSucceeds(t) \/ RenewalFails(t))

SpecRequests == Init /\ [][NextRequests]_vars /\ FairRequests

\* C39: every apiUtils request eventually reaches a terminal outcome, a
\* result or a rejection handed to its caller, when every network call and
\* every renewal call is answered or times out: no caller waits forever, be
\* it on its own request, on a renewal promise or on the shared promise of a
\* deduplicated operation.
C39_RequestsTerminate ==
  \A c \in Callers : (callers[c].pc = "waiting") ~> (callers[c].pc = "got")

\* C39 witness: a caller that took the pending operation of another has its
\* outcome, and the request behind that operation went through a renewal.
C39_Witness ==
  \E p \in Procs, c \in Callers :
    /\ c # p
    /\ callers[c].pc = "got" /\ ~callers[c].first
    /\ callers[c].op = callers[p].op
    /\ procs[p].pc = "done" /\ procs[p].nRenew > 0

====
